---- MODULE Spec2Model ----
(***************************************************************************)
(* LiteBCH: a binary BCH codec over GF(2^m).  The module models the codec  *)
(* object of src/include/litebch/LiteBCH.h: the tables built by the        *)
(* constructor, the two encoders (bit vector and byte buffer), the two     *)
(* decoders (Berlekamp-Massey + Chien search on bits and on bytes) and the *)
(* decoding buffers the instance keeps between calls.                      *)
(***************************************************************************)
EXTENDS Integers, Sequences, FiniteSets, TLC

(***************************************************************************)
(* Bounds of the model.                                                    *)
(***************************************************************************)
\* largest number of bit errors injected into a codeword beyond t
MaxExtraErr == 1
\* largest Hamming weight of the messages the encoders are compared on
MaxMsgWeight == 2
\* longest codeword on which the channel applies every error pattern
MaxDenseN == 15
\* distance between the error positions tried on a longer codeword
SiteStride == 5
\* distance between the error positions of the words decoded by threads
ChainStride == 4
\* number of words delivered to one instance in a sequence of calls
MaxCalls == 2
\* longest codeword on which the channel tries the spread positions
MaxSpreadN == 31
\* largest N handed to the constructor
MaxLength == 15
\* largest t handed to the constructor
MaxCapability == 4
\* largest m whose field tables are built on their own
MaxFieldM == 10

(***************************************************************************)
(* Integer helpers: the C++ operators on int / uint8_t / uint32_t.         *)
(***************************************************************************)
Pow2(n) == 2 ^ n

\* a function built by a loop, held as a table (evaluated once, then indexed)
Mat(f) == IF f = f THEN f ELSE f

\* y, once the loop variable x has been computed
Then(x, y) == IF x = x THEN y ELSE y

Nibbles == 0 .. 15

RECURSIVE XorSlow(_, _)
XorSlow(a, b) ==
  IF a = 0 THEN b
  ELSE IF b = 0 THEN a
  ELSE (((a % 2) + (b % 2)) % 2) + 2 * XorSlow(a \div 2, b \div 2)

XorNib == Mat([a \in Nibbles |-> Mat([b \in Nibbles |-> XorSlow(a, b)])])

\* a ^ b on non-negative integers
RECURSIVE Xor(_, _)
Xor(a, b) ==
  IF a < 16 /\ b < 16 THEN XorNib[a][b]
  ELSE XorNib[a % 16][b % 16] + (16 * Xor(a \div 16, b \div 16))

\* (x >> i) & 1
Bit(x, i) == (x \div Pow2(i)) % 2

\* x & ((1 << n) - 1)
LowBits(x, n) == x % Pow2(n)

SetMax(S) == CHOOSE x \in S : \A y \in S : y <= x

Last(sq) == sq[Len(sq)]

(***************************************************************************)
(* Construction: LiteBCH::LiteBCH and its helpers.                         *)
(***************************************************************************)
\* m = (int)std::ceil(std::log2(N))
RECURSIVE CeilLog2From(_, _)
CeilLog2From(n, k) == IF Pow2(k) >= n THEN k ELSE CeilLog2From(n, k + 1)

CeilLog2(n) == CeilLog2From(n, 0)

\* the polynomial with p[0] = p[m] = 1 and the taps given
TablePolynomial(taps, mm) ==
  [i \in 0 .. mm |-> IF i = 0 \/ i = mm \/ i \in taps THEN 1 ELSE 0]

\* the taps of the default polynomials, m = 9 listed with those that use p[1]
StatedTaps(mm) ==
  CASE mm \in {3, 4, 6, 7, 9, 15} -> {1}
    [] mm \in {5, 11} -> {2}
    [] mm = 10 -> {3}
    [] mm = 13 -> {1, 3, 4}
    [] mm = 8 -> {4, 5, 6}
    [] mm = 12 -> {3, 4, 7}
    [] mm = 14 -> {1, 11, 12}
    [] mm = 16 -> {2, 3, 5}
    [] OTHER -> {}

\* as select_polynomial, with p[1] in place of p[4] for m = 9
select_polynomial_p1(mm) == TablePolynomial(StatedTaps(mm), mm)

\* the primitive polynomial chosen when none is supplied, p[0..m]
select_polynomial(mm) ==
  LET taps == CASE mm = 3 -> {1}
                [] mm = 4 -> {1}
                [] mm = 5 -> {2}
                [] mm = 6 -> {1}
                [] mm = 7 -> {1}
                [] mm = 8 -> {4, 5, 6}
                [] mm = 9 -> {4}
                [] mm = 10 -> {3}
                [] mm = 11 -> {2}
                [] mm = 12 -> {3, 4, 7}
                [] mm = 13 -> {1, 3, 4}
                [] mm = 14 -> {1, 11, 12}
                [] mm = 15 -> {1}
                [] mm = 16 -> {2, 3, 5}
                [] OTHER -> {}
  IN [i \in 0 .. mm |-> IF i = 0 \/ i = mm \/ i \in taps THEN 1 ELSE 0]

\* as AlphaM, the taps p[i] never folded in: alpha_to[m] = 1
AlphaMNoTaps(pp, k) == 1

\* "alpha_to[m] ^= (1 << i)" over the taps p[i] # 0, i < k
RECURSIVE AlphaM(_, _)
AlphaM(pp, k) ==
  IF k = 0 THEN 0
  ELSE Xor(AlphaM(pp, k - 1), IF pp[k - 1] # 0 THEN Pow2(k - 1) ELSE 0)

\* the loops of init_galois kept as a sequence, entry k + 1 holding
\* alpha_to[k]: the pass that writes alpha_to[Len(sq)]
AlphaNext(mm, pp, sq) ==
  IF Len(sq) < mm THEN Append(sq, Pow2(Len(sq)))
  ELSE IF Len(sq) = mm THEN Append(sq, AlphaM(pp, mm))
  ELSE IF sq[Len(sq)] >= Pow2(mm - 1)
       THEN Append(sq, Xor(sq[mm + 1], Xor(sq[Len(sq)], Pow2(mm - 1)) * 2))
       ELSE Append(sq, sq[Len(sq)] * 2)

\* n more passes
RECURSIVE AlphaRange(_, _, _, _)
AlphaRange(mm, pp, sq, n) ==
  IF n = 0 THEN sq
  ELSE IF n = 1 THEN AlphaNext(mm, pp, sq)
  ELSE LET half == AlphaRange(mm, pp, sq, n \div 2)
       IN Then(half, AlphaRange(mm, pp, half, n - (n \div 2)))

\* alpha_to[0 .. N-1]
AlphaSeq(mm, pp, NN) == AlphaRange(mm, pp, <<>>, NN)

\* init_galois: the tables alpha_to[0..N] and index_of[0..N]; both vectors are
\* resized to N + 1 zeros first, entry N of alpha_to is never written
init_galois(NN, mm, pp) ==
  LET sq == AlphaSeq(mm, pp, NN)
      at == Mat([i \in 0 .. NN |-> IF i < NN THEN sq[i + 1] ELSE 0])
      io == Mat([x \in 0 .. NN |->
               IF x = 0 THEN -1
               ELSE LET S == {i \in 0 .. NN - 1 : at[i] = x}
                    IN IF S = {} THEN 0 ELSE SetMax(S)])
  IN [alpha_to |-> at, index_of |-> io]

\* one cyclotomic coset: push 2 * back mod N until it would return to front
RECURSIVE ExpandCycleSet(_, _)
ExpandCycleSet(NN, cs) ==
  LET cs2 == Append(cs, (Last(cs) * 2) % NN)
  IN IF (Last(cs2) * 2) % NN # Head(cs2) THEN ExpandCycleSet(NN, cs2) ELSE cs2

InCycleSets(sets, r) ==
  \E i \in 2 .. Len(sets) : \E j \in 1 .. Len(sets[i]) : sets[i][j] = r

\* the inner do-while: advance the representative past every covered value
RECURSIVE NextRepresentative(_, _, _)
NextRepresentative(NN, sets, r) ==
  LET r2 == r + 1
      test == InCycleSets(sets, r2)
  IN IF test /\ r2 < NN - 1 THEN NextRepresentative(NN, sets, r2)
     ELSE [rep |-> r2, test |-> test]

\* the outer do-while of compute_generator_polynomial; sets[1] is the set {0}
RECURSIVE CycleSets(_, _, _)
CycleSets(NN, sets, r) ==
  LET expanded == [sets EXCEPT ![Len(sets)] = ExpandCycleSet(NN, sets[Len(sets)])]
      nr == NextRepresentative(NN, expanded, r)
      sets2 == IF ~nr.test THEN Append(expanded, <<nr.rep>>) ELSE expanded
  IN IF nr.rep < NN - 1 THEN CycleSets(NN, sets2, nr.rep) ELSE sets2

\* as MinSets, the roots running through d
MinSetsThroughD(sets, dd) ==
  SelectSeq([i \in 1 .. Len(sets) - 1 |-> i + 1],
            LAMBDA i : \E j \in 1 .. Len(sets[i]) : sets[i][j] \in 1 .. dd)

\* indices (into cycle_sets) of the sets that hold a root in 1 .. d-1
MinSets(sets, dd) ==
  SelectSeq([i \in 1 .. Len(sets) - 1 |-> i + 1],
            LAMBDA i : \E j \in 1 .. Len(sets[i]) : sets[i][j] \in 1 .. dd - 1)

RECURSIVE ConcatSets(_, _, _)
ConcatSets(sets, min, i) ==
  IF i > Len(min) THEN <<>> ELSE sets[min[i]] \o ConcatSets(sets, min, i + 1)

\* as GenPolyStep, the coefficient used as an exponent without index_of
GenPolyStepNoLog(NN, at, io, zeros, gp, i) ==
  Mat([j \in 0 .. i |->
         IF j = i THEN 1
         ELSE IF j = 0 THEN at[(gp[0] + zeros[i]) % NN]
         ELSE IF gp[j] # 0
              THEN Xor(gp[j - 1], at[(gp[j] + zeros[i]) % NN])
              ELSE gp[j - 1]])

\* one pass of the product loop: gp times (x + alpha^zeros[i]), gp of degree i - 1
GenPolyStep(NN, at, io, zeros, gp, i) ==
  Mat([j \in 0 .. i |->
         IF j = i THEN 1
         ELSE IF j = 0 THEN at[(io[gp[0]] + zeros[i]) % NN]
         ELSE IF gp[j] # 0
              THEN Xor(gp[j - 1], at[(io[gp[j]] + zeros[i]) % NN])
              ELSE gp[j - 1]])

\* the passes lo .. hi of the product loop
RECURSIVE GenPolyRange(_, _, _, _, _, _, _)
GenPolyRange(NN, at, io, zeros, gp, lo, hi) ==
  IF lo > hi THEN gp
  ELSE IF lo = hi THEN GenPolyStep(NN, at, io, zeros, gp, lo)
  ELSE LET half == GenPolyRange(NN, at, io, zeros, gp, lo, (lo + hi) \div 2)
       IN Then(half, GenPolyRange(NN, at, io, zeros, half, ((lo + hi) \div 2) + 1, hi))

\* "g[0] = alpha_to[zeros[1]]; g[1] = 1" and the product loop
GenPoly(NN, at, io, zeros) ==
  GenPolyRange(NN, at, io, zeros,
               [j \in 0 .. 1 |-> IF j = 0 THEN at[zeros[1]] ELSE 1], 2, Len(zeros))

\* "zeros": the members of the selected sets, in the order of cycle_sets
SelectZeros(sets, dd) == ConcatSets(sets, MinSets(sets, dd), 1)

\* the roots of g in the order the constructor multiplies them in (zeros[1..])
GenZeros(NN, dd) == SelectZeros(CycleSets(NN, << <<0>>, <<1>> >>, 0), dd)

\* the product over GF(2^m) before the final reduction of the coefficients
GenPolyRaw(NN, dd, at, io) == GenPoly(NN, at, io, GenZeros(NN, dd))

\* "for (auto &val : g) val &= 1"
MaskCoefficients(raw) == Mat([j \in DOMAIN raw |-> raw[j] % 2])

compute_generator_polynomial(NN, dd, at, io) ==
  MaskCoefficients(GenPolyRaw(NN, dd, at, io))

(***************************************************************************)
(* Fast tables: init_fast_tables and the helpers of the byte encoder.      *)
(* A parity register "par" is ecc_words 32-bit words, word 0 first.        *)
(***************************************************************************)
\* a uint32_t is held as its 4 bytes, low byte first
WordBytes == 4

ZeroWord == [k \in 0 .. WordBytes - 1 |-> 0]

\* one serial LFSR step on a remainder rem[0..nb-1] of bits
LfsrStep(gg, nb, rem, input) ==
  LET feedback == (input + rem[nb - 1]) % 2
  IN Mat([k \in 0 .. nb - 1 |->
            IF k = 0 THEN (IF gg[0] # 0 THEN feedback ELSE 0)
            ELSE (rem[k - 1] + ((gg[k] % 2) * feedback)) % 2])

\* the 8 steps of init_fast_tables for byte i, bit 7 first
RECURSIVE LutRem(_, _, _, _)
LutRem(gg, nb, i, bit) ==
  IF bit > 7 THEN [k \in 0 .. nb - 1 |-> 0]
  ELSE LfsrStep(gg, nb, LutRem(gg, nb, i, bit + 1), Bit(i, bit))

\* bits rem[lo .. lo+7] below position nb as one byte, rem[lo] at bit 0
RECURSIVE PackByte(_, _, _, _)
PackByte(rem, nb, lo, b) ==
  IF b > 7 THEN 0
  ELSE (IF lo + b < nb /\ rem[lo + b] # 0 THEN Pow2(b) ELSE 0)
       + PackByte(rem, nb, lo, b + 1)

\* "if (idx < ecc_bits) if (rem[idx]) word |= (1 << b)" for every word
PackWords(rem, nb, words) ==
  Mat([w \in 0 .. words - 1 |->
         Mat([k \in 0 .. WordBytes - 1 |-> PackByte(rem, nb, (w * 32) + (k * 8), 0)])])

EncodeLut(gg, nb, words) ==
  Mat([i \in 0 .. 255 |-> PackWords(LutRem(gg, nb, i, 0), nb, words)])

\* syndrome_lut[i][b] = XOR over the set bits p of b of alpha_to[(i * p) % N];
\* row 0 is left at zero
RECURSIVE SyndromeLutVal(_, _, _, _, _)
SyndromeLutVal(NN, at, i, b, pbit) ==
  IF pbit > 7 THEN 0
  ELSE Xor(IF Bit(b, pbit) = 1 THEN at[(i * pbit) % NN] ELSE 0,
           SyndromeLutVal(NN, at, i, b, pbit + 1))

SyndromeLut(NN, tt, at) ==
  Mat([i \in 0 .. 2 * tt |->
         Mat([b \in 0 .. 255 |-> IF i = 0 THEN 0 ELSE SyndromeLutVal(NN, at, i, b, 0)])])

\* bit bit_pos of the register
ParBit(par, bit_pos) == Bit(par[bit_pos \div 32][(bit_pos % 32) \div 8], bit_pos % 8)

RECURSIVE TopByteFrom(_, _, _)
TopByteFrom(par, n_bits, i) ==
  IF i > 7 THEN 0
  ELSE (IF n_bits - 8 + i < 0 THEN 0 ELSE ParBit(par, n_bits - 8 + i) * Pow2(i))
       + TopByteFrom(par, n_bits, i + 1)

get_top_byte(par, n_bits) == TopByteFrom(par, n_bits, 0)

\* the byte below byte k of word w in the register (0 below the first)
ByteBelow(par, w, k) ==
  IF k >= 1 THEN par[w][k - 1]
  ELSE IF w = 0 THEN 0 ELSE par[w - 1][WordBytes - 1]

\* "par[w] = (temp << 8) | carry; carry = (temp >> 24)"
shift_left_8(par, words) ==
  Mat([w \in 0 .. words - 1 |->
         Mat([k \in 0 .. WordBytes - 1 |-> ByteBelow(par, w, k)])])

\* "par[w] = (temp << 1) | carry; carry = (temp >> 31)"
shift_left_1(par, words) ==
  Mat([w \in 0 .. words - 1 |->
         Mat([k \in 0 .. WordBytes - 1 |->
                ((par[w][k] * 2) % 256) + (ByteBelow(par, w, k) \div 128)])])

apply_mask(par, n_bits) ==
  Mat([w \in DOMAIN par |->
         Mat([k \in 0 .. WordBytes - 1 |->
                LET valid == n_bits - ((w * 32) + (k * 8))
                IN IF valid <= 0 THEN 0
                   ELSE IF valid >= 8 THEN par[w][k]
                   ELSE LowBits(par[w][k], valid)])])

XorWords(a, b) ==
  Mat([w \in DOMAIN a |->
         Mat([k \in 0 .. WordBytes - 1 |-> Xor(a[w][k], b[w][k])])])

\* "if (g[k]) par[w] ^= (1U << b)" for k < n_bits, as a mask
PackedG(gg, n_bits, words) ==
  PackWords([k \in 0 .. n_bits - 1 |-> IF gg[k] # 0 THEN 1 ELSE 0], n_bits, words)

\* LiteBCH::LiteBCH(N, t, p): the fields of the instance; p = <<>> selects the
\* default polynomial
\* the tail of the constructor: n_rdncy = g.size() - 1, K, init_fast_tables
WithGenerator(NN, tt, mm, pol, at, io, gg, rd) ==
  [N |-> NN, t |-> tt, d |-> (2 * tt) + 1, m |-> mm, p |-> pol,
   alpha_to |-> at, index_of |-> io, g |-> gg,
   n_rdncy |-> rd, K |-> NN - rd,
   ecc_bits |-> rd, ecc_words |-> (rd + 31) \div 32, ecc_bytes |-> (rd + 7) \div 8,
   encode_lut |-> EncodeLut(gg, rd, (rd + 31) \div 32),
   syndrome_lut |-> SyndromeLut(NN, tt, at)]

\* the constructor once the field tables stand
WithField(NN, tt, mm, pol, at, io, gg) ==
  WithGenerator(NN, tt, mm, pol, at, io, gg, Cardinality(DOMAIN gg) - 1)

WithTables(NN, tt, mm, pol, gf) ==
  WithField(NN, tt, mm, pol, gf.alpha_to, gf.index_of,
            compute_generator_polynomial(NN, (2 * tt) + 1, gf.alpha_to, gf.index_of))

WithPolynomial(NN, tt, mm, pol) == WithTables(NN, tt, mm, pol, init_galois(NN, mm, pol))

LiteBCH(NN, tt, pp) ==
  WithPolynomial(NN, tt, CeilLog2(NN),
                 IF pp = <<>> THEN select_polynomial(CeilLog2(NN))
                 ELSE [i \in 0 .. Len(pp) - 1 |-> pp[i + 1]])

(***************************************************************************)
(* Encoding.                                                               *)
(***************************************************************************)
\* one iteration of the full-byte loop of encode(data, len, ecc_out)
EncodeByteStep(c, par, input) ==
  LET feedback == Xor(get_top_byte(par, c.ecc_bits), input)
  IN XorWords(apply_mask(shift_left_8(par, c.ecc_words), c.ecc_bits),
              c.encode_lut[feedback])

\* EncodeTailStep with the feedback taken from the input bit alone
EncodeTailStepNoTop(c, par, input_bit) ==
  LET shifted == shift_left_1(par, c.ecc_words)
  IN IF input_bit # 0
     THEN XorWords(shifted, PackedG(c.g, c.ecc_bits, c.ecc_words))
     ELSE shifted

\* one iteration of the bitwise tail loop
EncodeTailStep(c, par, input_bit) ==
  LET top_bit == ParBit(par, c.ecc_bits - 1)
      feedback == (input_bit + top_bit) % 2
      shifted == shift_left_1(par, c.ecc_words)
  IN IF feedback # 0
     THEN XorWords(shifted, PackedG(c.g, c.ecc_bits, c.ecc_words))
     ELSE shifted

\* the passes i = lo .. hi of the full-byte loop
RECURSIVE EncodeFullBytes(_, _, _, _, _)
EncodeFullBytes(c, data, par, lo, hi) ==
  IF lo > hi THEN par
  ELSE IF lo = hi THEN EncodeByteStep(c, par, data[lo])
  ELSE LET half == EncodeFullBytes(c, data, par, lo, (lo + hi) \div 2)
       IN Then(half, EncodeFullBytes(c, data, half, ((lo + hi) \div 2) + 1, hi))

\* as EncodeTail, the bits of the last byte taken from its low end
RECURSIVE EncodeTailLowFirst(_, _, _, _, _)
EncodeTailLowFirst(c, par, last_byte, lo, hi) ==
  IF lo > hi THEN par
  ELSE EncodeTailLowFirst(c, EncodeTailStep(c, par, Bit(last_byte, lo)),
                          last_byte, lo + 1, hi)

\* the passes b = lo .. hi of the tail loop, bit 7 - b of the last byte
RECURSIVE EncodeTail(_, _, _, _, _)
EncodeTail(c, par, last_byte, lo, hi) ==
  IF lo > hi THEN par
  ELSE IF lo = hi THEN EncodeTailStep(c, par, Bit(last_byte, 7 - lo))
  ELSE LET half == EncodeTail(c, par, last_byte, lo, (lo + hi) \div 2)
       IN Then(half, EncodeTail(c, half, last_byte, ((lo + hi) \div 2) + 1, hi))

\* the register written out as ecc_bytes bytes, bit i at byte i / 8, bit i % 8
RECURSIVE EccByte(_, _, _, _)
EccByte(c, par, byte, b) ==
  IF b > 7 THEN 0
  ELSE (IF (byte * 8) + b < c.ecc_bits
        THEN ParBit(par, (byte * 8) + b) * Pow2(b) ELSE 0)
       + EccByte(c, par, byte, b + 1)

EccOut(c, par) == Mat([i \in 0 .. c.ecc_bytes - 1 |-> EccByte(c, par, i, 0)])

\* void encode(const uint8_t *data, size_t len, uint8_t *ecc_out): the bytes
\* written to ecc_out; data is the buffer data[0 .. len-1]
encode_bytes(c, data) ==
  LET full_bytes == c.K \div 8
      rem_bits == c.K % 8
      par1 == EncodeFullBytes(c, data, [w \in 0 .. c.ecc_words - 1 |-> ZeroWord],
                              0, full_bytes - 1)
  IN EccOut(c, IF rem_bits > 0
               THEN apply_mask(EncodeTail(c, par1, data[full_bytes], 0, rem_bits - 1),
                               c.ecc_bits)
               ELSE par1)

\* EncodeBitStep with the feedback taken from the message bit alone
EncodeBitStepNoTop(c, par, u) ==
  Mat([j \in 0 .. c.n_rdncy - 1 |->
         IF j = 0 THEN (IF u # 0 /\ c.g[0] # 0 THEN 1 ELSE 0)
         ELSE (par[j - 1] + ((c.g[j] % 2) * u)) % 2])

\* one iteration of the outer loop of __encode, on message bit u
EncodeBitStep(c, par, u) ==
  LET feedback == (u + par[c.n_rdncy - 1]) % 2
  IN Mat([j \in 0 .. c.n_rdncy - 1 |->
            IF j = 0 THEN (IF feedback # 0 /\ c.g[0] # 0 THEN 1 ELSE 0)
            ELSE (par[j - 1] + ((c.g[j] % 2) * feedback)) % 2])

\* the passes i = hi down to lo of the outer loop of __encode
RECURSIVE EncodeParRange(_, _, _, _, _)
EncodeParRange(c, U_K, par, hi, lo) ==
  IF hi < lo THEN par
  ELSE IF hi = lo THEN EncodeBitStep(c, par, U_K[hi])
  ELSE LET half == EncodeParRange(c, U_K, par, hi, ((hi + lo) \div 2) + 1)
       IN Then(half, EncodeParRange(c, U_K, half, (hi + lo) \div 2, lo))

\* __encode(U_K, par): "std::fill(par, par + n_rdncy, 0)" and the loop
EncodePar(c, U_K) ==
  EncodeParRange(c, U_K, [j \in 0 .. c.n_rdncy - 1 |-> 0], c.K - 1, 0)

\* the codeword [parity | message]
Systematic(c, par, message_bits) ==
  Mat([i \in 0 .. c.N - 1 |->
         IF i < c.n_rdncy THEN par[i] ELSE message_bits[i - c.n_rdncy]])

\* std::vector<B> encode(const std::vector<B> &message_bits), |message_bits| = K
encode_bits(c, message_bits) ==
  Systematic(c, EncodePar(c, message_bits), message_bits)

(***************************************************************************)
(* Packing between the bit layout [parity | message] and the byte buffers. *)
(***************************************************************************)
\* message bit i sits at stream position K-1-i, byte pos / 8, bit 7 - pos % 8
RECURSIVE DataByte(_, _, _, _)
DataByte(c, msg, byte, k) ==
  IF k > 7 THEN 0
  ELSE LET stream_pos == (byte * 8) + k
       IN (IF stream_pos < c.K
           THEN msg[c.K - 1 - stream_pos] * Pow2(7 - k) ELSE 0)
          + DataByte(c, msg, byte, k + 1)

PackData(c, msg) ==
  Mat([b \in 0 .. ((c.K + 7) \div 8) - 1 |-> DataByte(c, msg, b, 0)])

\* parity bit i sits at byte i / 8, bit i % 8
RECURSIVE ParityByte(_, _, _, _)
ParityByte(c, bits, byte, k) ==
  IF k > 7 THEN 0
  ELSE (IF (byte * 8) + k < c.n_rdncy
        THEN bits[(byte * 8) + k] * Pow2(k) ELSE 0)
       + ParityByte(c, bits, byte, k + 1)

PackEcc(c, bits) == Mat([b \in 0 .. c.ecc_bytes - 1 |-> ParityByte(c, bits, b, 0)])

\* DataBit with the bit offset counted from the low end of the byte
DataBitLsbFirst(c, data, i) ==
  LET stream_pos == c.K - 1 - i
  IN Bit(data[stream_pos \div 8], stream_pos % 8)

\* message bit i read back from the data buffer
DataBit(c, data, i) ==
  LET stream_pos == c.K - 1 - i
  IN Bit(data[stream_pos \div 8], 7 - (stream_pos % 8))

UnpackData(c, data) == Mat([i \in 0 .. c.K - 1 |-> DataBit(c, data, i)])

EccBit(ecc, i) == Bit(ecc[i \div 8], i % 8)

(***************************************************************************)
(* Decoding.  The decoding buffers of the instance are the record          *)
(*   [elp, discrepancy, l, u_lu, s, loc, reg]                              *)
(* plus the flag ub, raised when a step indexes a table outside its range. *)
(***************************************************************************)
\* the buffers as the constructor sizes them (value-initialised vectors)
FreshBuffers(c) ==
  [elp |-> [u \in 0 .. (2 * c.t) + 4 |-> [i \in 0 .. c.N |-> 0]],
   discrepancy |-> [u \in 0 .. (2 * c.t) + 4 |-> 0],
   l |-> [u \in 0 .. (2 * c.t) + 4 |-> 0],
   u_lu |-> [u \in 0 .. (2 * c.t) + 4 |-> 0],
   s |-> [i \in 0 .. 2 * c.t |-> 0],
   loc |-> [i \in 0 .. c.t |-> 0],
   reg |-> [i \in 0 .. c.t |-> 0],
   ub |-> FALSE]

\* index_of[x]; x outside the table is an out-of-range read
InTable(c, x) == x >= 0 /\ x <= c.N

IndexOf(c, x) == IF InTable(c, x) THEN c.index_of[x] ELSE -1

\* a ^ b where an operand that is not a field element poisons the step
XorF(a, b) == IF a < 0 \/ b < 0 THEN 0 ELSE Xor(a, b)

\* bit path: the XOR of alpha_to[(i * j) % N] over the set bits j of Y_N,
\* j in lo .. hi
RECURSIVE SyndromeBits(_, _, _, _, _)
SyndromeBits(c, Y_N, i, lo, hi) ==
  IF lo > hi THEN 0
  ELSE IF lo = hi THEN (IF Y_N[lo] # 0 THEN c.alpha_to[(i * lo) % c.N] ELSE 0)
  ELSE Xor(SyndromeBits(c, Y_N, i, lo, (lo + hi) \div 2),
           SyndromeBits(c, Y_N, i, ((lo + hi) \div 2) + 1, hi))

\* the syndromes of _decode in index form, entry 0 untouched
SyndromesBitPath(c, old_s, Y_N) ==
  Mat([i \in 0 .. 2 * c.t |->
         IF i = 0 THEN old_s[0]
         ELSE c.index_of[SyndromeBits(c, Y_N, i, 0, c.N - 1)]])

\* as SyndromeHorner, the last byte of the difference not masked
RECURSIVE SyndromeHornerUnmasked(_, _, _, _)
SyndromeHornerUnmasked(c, diff, i, k) ==
  IF k >= c.ecc_bytes THEN 0
  ELSE LET acc == SyndromeHornerUnmasked(c, diff, i, k + 1)
           stepped == IF acc # 0
                      THEN c.alpha_to[(c.index_of[acc] + ((i * 8) % c.N)) % c.N]
                      ELSE 0
       IN Xor(stepped, c.syndrome_lut[i][diff[k]])

\* byte path: Horner over the bytes of calc_ecc ^ ecc, high byte first
RECURSIVE SyndromeHorner(_, _, _, _)
SyndromeHorner(c, diff, i, k) ==
  IF k >= c.ecc_bytes THEN 0
  ELSE LET acc == SyndromeHorner(c, diff, i, k + 1)
           b == IF k = c.ecc_bytes - 1 /\ c.n_rdncy % 8 # 0
                THEN LowBits(diff[k], c.n_rdncy % 8) ELSE diff[k]
           stepped == IF acc # 0
                      THEN c.alpha_to[(c.index_of[acc] + ((i * 8) % c.N)) % c.N]
                      ELSE 0
       IN Xor(stepped, c.syndrome_lut[i][b])

\* s_poly of decode(data, len, ecc) after the conversion to index form
SyndromesBytePath(c, data, ecc) ==
  LET calc_ecc == encode_bytes(c, data)
      diff == Mat([i \in 0 .. c.ecc_bytes - 1 |-> Xor(calc_ecc[i], ecc[i])])
  IN Mat([i \in 0 .. 2 * c.t |->
            IF i = 0 THEN 0
            ELSE LET v == SyndromeHorner(c, diff, i, 0)
                 IN IF v # 0 THEN c.index_of[v] ELSE -1])

SynError(c, sv) == \E i \in 1 .. 2 * c.t : sv[i] # -1

\* BMInit that sets up the rows elp[0] and elp[1] on the first call only
BMInitOnce(c, ws, sv) ==
  LET t2 == 2 * c.t
      first == ws.u_lu[0] # -1
  IN [ws EXCEPT
        !.s = sv,
        !.discrepancy = [ws.discrepancy EXCEPT ![0] = 0, ![1] = sv[1]],
        !.elp = [ws.elp EXCEPT
                   ![0] = Mat([i \in 0 .. c.N |->
                                 IF ~first THEN ws.elp[0][i]
                                 ELSE IF i = 0 THEN 0
                                 ELSE IF i < t2 THEN -1 ELSE ws.elp[0][i]]),
                   ![1] = Mat([i \in 0 .. c.N |->
                                 IF ~first THEN ws.elp[1][i]
                                 ELSE IF i = 0 THEN 1
                                 ELSE IF i < t2 THEN 0 ELSE ws.elp[1][i]])],
        !.l = [ws.l EXCEPT ![0] = 0, ![1] = 0],
        !.u_lu = [ws.u_lu EXCEPT ![0] = -1, ![1] = 0]]

\* the initial conditions of the Berlekamp iteration; the byte path first
\* copies its syndromes into the instance ("this->s = s_poly")
BMInit(c, ws, sv) ==
  LET t2 == 2 * c.t
  IN [ws EXCEPT
        !.s = sv,
        !.discrepancy = [ws.discrepancy EXCEPT ![0] = 0, ![1] = sv[1]],
        !.elp = [ws.elp EXCEPT
                   ![0] = Mat([i \in 0 .. c.N |->
                                 IF i = 0 THEN 0
                                 ELSE IF i < t2 THEN -1 ELSE ws.elp[0][i]]),
                   ![1] = Mat([i \in 0 .. c.N |->
                                 IF i = 0 THEN 1
                                 ELSE IF i < t2 THEN 0 ELSE ws.elp[1][i]])],
        !.l = [ws.l EXCEPT ![0] = 0, ![1] = 0],
        !.u_lu = [ws.u_lu EXCEPT ![0] = -1, ![1] = 0]]

\* "while ((discrepancy[q] == -1) && (q > 0)) q--"
RECURSIVE SkipZeroDiscrepancy(_, _)
SkipZeroDiscrepancy(ws, q) ==
  IF ws.discrepancy[q] = -1 /\ q > 0 THEN SkipZeroDiscrepancy(ws, q - 1) ELSE q

\* as ScanBest, a step of equal u_lu taken as well
RECURSIVE ScanBestOrEqual(_, _, _)
ScanBestOrEqual(ws, q, j) ==
  LET j2 == j - 1
      q2 == IF ws.discrepancy[j2] # -1 /\ ws.u_lu[q] <= ws.u_lu[j2] THEN j2 ELSE q
  IN IF j2 > 0 THEN ScanBestOrEqual(ws, q2, j2) ELSE q2

\* "do { j--; if (discrepancy[j] != -1 && u_lu[q] < u_lu[j]) q = j; } while (j > 0)"
RECURSIVE ScanBest(_, _, _)
ScanBest(ws, q, j) ==
  LET j2 == j - 1
      q2 == IF ws.discrepancy[j2] # -1 /\ ws.u_lu[q] < ws.u_lu[j2] THEN j2 ELSE q
  IN IF j2 > 0 THEN ScanBest(ws, q2, j2) ELSE q2

\* the step q chosen at step u when discrepancy[u] is not zero
ChooseQ(ws, u) ==
  LET q0 == SkipZeroDiscrepancy(ws, u - 1)
  IN IF q0 > 0 THEN ScanBest(ws, q0, q0) ELSE q0

\* discrepancy[u + 1] from the syndromes and elp[u + 1]
RECURSIVE DiscrepancySum(_, _, _, _)
DiscrepancySum(c, ws, u, i) ==
  IF i > ws.l[u + 1] \/ i > u + 1 THEN 0
  ELSE Xor(IF ws.s[u + 1 - i] # -1 /\ ws.elp[u + 1][i] # 0
              /\ InTable(c, ws.elp[u + 1][i])
           THEN c.alpha_to[(ws.s[u + 1 - i] + c.index_of[ws.elp[u + 1][i]]) % c.N]
           ELSE 0,
           DiscrepancySum(c, ws, u, i + 1))

\* elp[u] once the step has put it into index form up to l[u]
ElpIndexForm(c, ws, u) ==
  Mat([i \in 0 .. c.N |->
         IF i <= ws.l[u] THEN IndexOf(c, ws.elp[u][i]) ELSE ws.elp[u][i]])

\* l[u + 1] for the chosen step q
BMLength(ws, u, q) ==
  IF ws.discrepancy[u] = -1 THEN ws.l[u]
  ELSE IF ws.l[u] > ws.l[q] + u - q THEN ws.l[u] ELSE ws.l[q] + u - q

\* BMShifted without "for (i = 0; i < t2; i++) elp[u + 1][i] = 0"
BMShiftedStale(c, ws, u, q) ==
  Mat([i \in 0 .. c.N |->
         LET k == i - (u - q)
         IN IF k >= 0 /\ k <= ws.l[q] /\ ws.elp[q][k] # -1
            THEN c.alpha_to[(ws.discrepancy[u] + c.N - ws.discrepancy[q]
                              + ws.elp[q][k]) % c.N]
            ELSE ws.elp[u + 1][i]])

\* row u + 1 before elp[u] is added in: zeroed up to t2, then elp[q] shifted
BMShifted(c, ws, u, q) ==
  Mat([i \in 0 .. c.N |->
         LET k == i - (u - q)
         IN IF k >= 0 /\ k <= ws.l[q] /\ ws.elp[q][k] # -1
            THEN c.alpha_to[(ws.discrepancy[u] + c.N - ws.discrepancy[q]
                              + ws.elp[q][k]) % c.N]
            ELSE IF i < 2 * c.t THEN 0 ELSE ws.elp[u + 1][i]])

\* row u + 1 at the end of the step
BMRowNext(c, ws, u, shifted) ==
  Mat([i \in 0 .. c.N |->
         IF ws.discrepancy[u] = -1
         THEN (IF i <= ws.l[u] THEN ws.elp[u][i] ELSE ws.elp[u + 1][i])
         ELSE IF i <= ws.l[u] THEN XorF(shifted[i], ws.elp[u][i])
              ELSE shifted[i]])

\* the step reads or writes outside a row of elp or outside index_of
BMOutOfRange(c, ws, u, q) ==
  \/ ws.l[u] > c.N
  \/ \E i \in 0 .. c.N : i <= ws.l[u] /\ ~InTable(c, ws.elp[u][i])
  \/ ws.discrepancy[u] # -1
     /\ \E k \in 0 .. c.N : k <= ws.l[q] /\ ws.elp[q][k] # -1 /\ k + u - q > c.N

\* the first half of the do-while body, u already advanced: l[u + 1],
\* elp[u + 1], elp[u] in index form, u_lu[u + 1]
BMUpdate(c, ws, u, q) ==
  [ws EXCEPT
     !.l = [ws.l EXCEPT ![u + 1] = BMLength(ws, u, q)],
     !.elp = [ws.elp EXCEPT ![u] = ElpIndexForm(c, ws, u),
                            ![u + 1] = BMRowNext(c, ws, u, BMShifted(c, ws, u, q))],
     !.u_lu = [ws.u_lu EXCEPT ![u + 1] = u - BMLength(ws, u, q)],
     !.ub = ws.ub \/ BMOutOfRange(c, ws, u, q)]

\* the second half: "if (u < t2) { discrepancy[u + 1] = ... }"
BMDiscrepancy(c, ws, u) ==
  LET bad == \/ ws.l[u + 1] > u + 1
             \/ \E i \in 1 .. c.N :
                   i <= ws.l[u + 1] /\ i <= u + 1 /\ ws.s[u + 1 - i] # -1
                   /\ ws.elp[u + 1][i] # 0 /\ ~InTable(c, ws.elp[u + 1][i])
      disc == c.index_of[Xor(IF ws.s[u + 1] # -1 THEN c.alpha_to[ws.s[u + 1]] ELSE 0,
                             DiscrepancySum(c, ws, u, 1))]
  IN IF u < 2 * c.t
     THEN [ws EXCEPT !.discrepancy = [ws.discrepancy EXCEPT ![u + 1] = disc],
                     !.ub = ws.ub \/ bad]
     ELSE ws

\* one pass of the do-while body of the Berlekamp iteration, u already advanced
BMIter(c, ws, u) ==
  BMDiscrepancy(c,
    BMUpdate(c, ws, u, IF ws.discrepancy[u] = -1 THEN 0 ELSE ChooseQ(ws, u)),
    u)

\* the loop condition "(u < t2) && (l[u + 1] <= t)"
BMContinue(c, ws, u) == u < 2 * c.t /\ ws.l[u + 1] <= c.t

\* the passes after pass u: the buffers and the last u
RECURSIVE BMLoop(_, _, _)
BMLoop(c, ws, u) ==
  IF BMContinue(c, ws, u) THEN BMLoop(c, BMIter(c, ws, u + 1), u + 1)
  ELSE [ws |-> ws, u |-> u]

\* "u = 0; do { u++; ... } while ((u < t2) && (l[u + 1] <= t))"
BMRun(c, ws) == BMLoop(c, BMIter(c, ws, 1), 1)

\* ChienAdvance whose fast path never subtracts N
ChienAdvanceNoWrap(c, reg, lu, fast) ==
  Mat([j \in DOMAIN reg |->
         IF j >= 1 /\ j <= lu /\ reg[j] # -1
         THEN (IF fast THEN reg[j] + j ELSE (reg[j] + j) % c.N)
         ELSE reg[j]])

\* one pass of the Chien loop over the registers reg[1 .. lu]; fast selects
\* the byte path's "val -= N" in place of "% N"
ChienAdvance(c, reg, lu, fast) ==
  Mat([j \in DOMAIN reg |->
         IF j >= 1 /\ j <= lu /\ reg[j] # -1
         THEN (IF fast
               THEN (IF reg[j] + j >= c.N THEN reg[j] + j - c.N ELSE reg[j] + j)
               ELSE (reg[j] + j) % c.N)
         ELSE reg[j]])

\* as ChienSum, the sum started from 0: the constant term of the locator left out
RECURSIVE ChienSumFromZero(_, _, _, _)
ChienSumFromZero(c, reg, lu, j) ==
  IF j > lu THEN 0
  ELSE Xor(IF reg[j] # -1 /\ reg[j] >= 0 /\ reg[j] <= c.N
           THEN c.alpha_to[reg[j]] ELSE 0,
           ChienSumFromZero(c, reg, lu, j + 1))

\* q = 1 ^ alpha_to[reg[1]] ^ ... over the registers that are not -1
RECURSIVE ChienSum(_, _, _, _)
ChienSum(c, reg, lu, j) ==
  IF j > lu THEN 1
  ELSE Xor(IF reg[j] # -1 /\ reg[j] >= 0 /\ reg[j] <= c.N
           THEN c.alpha_to[reg[j]] ELSE 0,
           ChienSum(c, reg, lu, j + 1))

\* the state of the Chien loop after one pass with the registers reg1
ChienPass(c, st, lu, i, reg1, root) ==
  [reg |-> reg1,
   loc |-> IF root /\ st.count <= c.t
           THEN [st.loc EXCEPT ![st.count] = c.N - i] ELSE st.loc,
   count |-> IF root THEN st.count + 1 ELSE st.count,
   ub |-> \/ st.ub
          \/ \E j \in 1 .. lu : reg1[j] # -1 /\ (reg1[j] < 0 \/ reg1[j] > c.N)
          \/ (root /\ st.count > c.t)]

ChienStep(c, st, lu, i, reg1) ==
  ChienPass(c, st, lu, i, reg1, ChienSum(c, reg1, lu, 1) = 0)

\* the passes lo .. hi of the Chien loop: [reg, loc, count, ub]
RECURSIVE ChienSearch(_, _, _, _, _, _)
ChienSearch(c, st, lu, fast, lo, hi) ==
  IF lo > hi THEN st
  ELSE IF lo = hi
  THEN ChienStep(c, st, lu, lo, ChienAdvance(c, st.reg, lu, fast))
  ELSE LET half == ChienSearch(c, st, lu, fast, lo, (lo + hi) \div 2)
       IN Then(half, ChienSearch(c, half, lu, fast, ((lo + hi) \div 2) + 1, hi))

\* "for (i = 1; i <= l[u]; i++) reg[i] = elp[u][i]; count = 0"
ChienStart(ws, lu, rowU) ==
  [reg |-> Mat([j \in DOMAIN ws.reg |->
                  IF j >= 1 /\ j <= lu THEN rowU[j] ELSE ws.reg[j]]),
   loc |-> ws.loc, count |-> 0, ub |-> FALSE]

\* the buffers and the number of roots once the Chien loop has ended
LocateEnd(c, ws, u, rowU, ch) ==
  [ws |-> [ws EXCEPT !.elp = [ws.elp EXCEPT ![u] = rowU],
                     !.reg = ch.reg, !.loc = ch.loc,
                     !.ub = \/ ws.ub
                            \/ \E i \in 0 .. ws.l[u] : ~InTable(c, ws.elp[u][i])
                            \/ ch.ub],
   found |-> TRUE, count |-> ch.count]

LocateRoots(c, ws, u, fast, rowU) ==
  LocateEnd(c, ws, u, rowU,
            ChienSearch(c, ChienStart(ws, ws.l[u], rowU), ws.l[u], fast, 1, c.N))

\* after the do-while: "u++; if (l[u] <= t) { ... Chien search ... }".
\* [ws, found, count]: found is FALSE when l[u] > t
Locate(c, ws, u, fast) ==
  IF ws.l[u] <= c.t
  THEN LocateRoots(c, ws, u, fast, ElpIndexForm(c, ws, u))
  ELSE [ws |-> ws, found |-> FALSE, count |-> 0]

\* FlipData with the bit offset counted from the low end of the byte
FlipDataLsbFirst(c, data, len, bit_idx) ==
  LET stream_pos == c.K - 1 - (bit_idx - c.n_rdncy)
      byte_idx == stream_pos \div 8
      bit_off == stream_pos % 8
  IN IF byte_idx < len
     THEN [data EXCEPT ![byte_idx] = Xor(@, Pow2(bit_off))]
     ELSE data

\* the bit flipped in the byte buffers for codeword position bit_idx
FlipData(c, data, len, bit_idx) ==
  LET stream_pos == c.K - 1 - (bit_idx - c.n_rdncy)
      byte_idx == stream_pos \div 8
      bit_off == 7 - (stream_pos % 8)
  IN IF byte_idx < len
     THEN [data EXCEPT ![byte_idx] = Xor(@, Pow2(bit_off))]
     ELSE data

\* FlipEcc with the parity bytes taken as MSB-first
FlipEccMsbFirst(c, ecc, bit_idx) ==
  IF bit_idx \div 8 < c.ecc_bytes
  THEN [ecc EXCEPT ![bit_idx \div 8] = Xor(@, Pow2(7 - (bit_idx % 8)))]
  ELSE ecc

\* the bit flipped in the parity buffer for codeword position bit_idx
FlipEcc(c, ecc, bit_idx) ==
  IF bit_idx \div 8 < c.ecc_bytes
  THEN [ecc EXCEPT ![bit_idx \div 8] = Xor(@, Pow2(bit_idx % 8))]
  ELSE ecc

\* one pass of the correction loop of the byte path
CorrectByte(c, prev, len, bit_idx) ==
  IF bit_idx >= c.n_rdncy
  THEN [data |-> FlipData(c, prev.data, len, bit_idx), ecc |-> prev.ecc]
  ELSE [data |-> prev.data, ecc |-> FlipEcc(c, prev.ecc, bit_idx)]

\* the correction loop of the byte path over loc[0 .. n-1]
RECURSIVE CorrectBytes(_, _, _, _, _, _)
CorrectBytes(c, loc, data, len, ecc, n) ==
  IF n = 0 THEN [data |-> data, ecc |-> ecc]
  ELSE CorrectByte(c, CorrectBytes(c, loc, data, len, ecc, n - 1), len, loc[n - 1])

\* one pass of the correction loop of the bit path
CorrectBit(c, prev, pos) == IF pos < c.N THEN [prev EXCEPT ![pos] = 1 - @] ELSE prev

\* the correction loop of the bit path: "if (loc[i] < N) Y_N[loc[i]] ^= 1"
RECURSIVE CorrectBits(_, _, _, _)
CorrectBits(c, loc, Y_N, n) ==
  IF n = 0 THEN Y_N
  ELSE CorrectBit(c, CorrectBits(c, loc, Y_N, n - 1), loc[n - 1])

\* "return count" with the corrected buffers
BytePathCorrected(fin, fixed) ==
  [ret |-> fin.count, data |-> fixed.data, ecc |-> fixed.ecc, ws |-> fin.ws]

\* as BytePathEnd, the roots found corrected before "return -1"
BytePathEndPartial(c, data, len, ecc, u, fin) ==
  IF fin.found
  THEN [BytePathCorrected(fin,
          CorrectBytes(c, fin.ws.loc, data, len, ecc, fin.count))
        EXCEPT !.ret = IF fin.count = fin.ws.l[u] THEN fin.count ELSE -1]
  ELSE [ret |-> -1, data |-> data, ecc |-> ecc, ws |-> fin.ws]

\* "if (count == l[u]) { correct; return count; } else return -1", and
\* "return -1" when l[u] > t
BytePathEnd(c, data, len, ecc, u, fin) ==
  IF fin.found /\ fin.count = fin.ws.l[u]
  THEN BytePathCorrected(fin,
         CorrectBytes(c, fin.ws.loc, data, len, ecc, fin.count))
  ELSE [ret |-> -1, data |-> data, ecc |-> ecc, ws |-> fin.ws]

BytePathLocate(c, data, len, ecc, lp) ==
  BytePathEnd(c, data, len, ecc, lp.u + 1, Locate(c, lp.ws, lp.u + 1, TRUE))

\* "if (!syn_error) return 0", before any buffer of the instance is written
BytePathFrom(c, ws, data, len, ecc, sv) ==
  IF ~SynError(c, sv)
  THEN [ret |-> 0, data |-> data, ecc |-> ecc, ws |-> ws]
  ELSE BytePathLocate(c, data, len, ecc, BMRun(c, BMInit(c, ws, sv)))

\* int decode(uint8_t *data, size_t len, uint8_t *ecc) on the buffers ws:
\* the value returned, the two byte buffers and the instance buffers afterwards
decode_bytes(c, ws, data, len, ecc) ==
  BytePathFrom(c, ws, data, len, ecc, SyndromesBytePath(c, data, ecc))

BitPathEnd(c, Y_N, u, fin) ==
  IF fin.found /\ fin.count = fin.ws.l[u]
  THEN [status |-> 0, Y_N |-> CorrectBits(c, fin.ws.loc, Y_N, fin.count),
        flipped |-> fin.count, ws |-> fin.ws]
  ELSE [status |-> 1, Y_N |-> Y_N, flipped |-> 0, ws |-> fin.ws]

BitPathLocate(c, Y_N, lp) ==
  BitPathEnd(c, Y_N, lp.u + 1, Locate(c, lp.ws, lp.u + 1, FALSE))

\* the syndromes are written into s in place; without a syndrome error the
\* call returns 0 at once
BitPathFrom(c, ws, Y_N, sv) ==
  IF ~SynError(c, sv)
  THEN [status |-> 0, Y_N |-> Y_N, flipped |-> 0, ws |-> [ws EXCEPT !.s = sv]]
  ELSE BitPathLocate(c, Y_N, BMRun(c, BMInit(c, ws, sv)))

\* int _decode(B *Y_N): 0 on success, 1 on failure, Y_N corrected in place
_decode(c, ws, Y_N) == BitPathFrom(c, ws, Y_N, SyndromesBitPath(c, ws.s, Y_N))

\* a std::vector<B> as a function on 0 .. size-1
VecLen(v) == Cardinality(DOMAIN v)

\* "if (count < 0) return false; decoded_message.resize(K); ... return true"
UnpackResult(c, decoded_message, r) ==
  IF r.ret < 0
  THEN [ret |-> FALSE, out |-> decoded_message, count |-> r.ret, ws |-> r.ws]
  ELSE [ret |-> TRUE, out |-> UnpackData(c, r.data), count |-> r.ret, ws |-> r.ws]

\* the K message bits of a received word, received_bits[n_rdncy + i]
MessagePart(c, bits) == Mat([i \in 0 .. c.K - 1 |-> bits[c.n_rdncy + i]])

\* bool decode(received_bits, decoded_message): packs the bits into bytes and
\* runs the byte decoder; decoded_message is the caller's vector
decode_bits(c, ws, received_bits, decoded_message) ==
  IF VecLen(received_bits) # c.N
  THEN [ret |-> FALSE, out |-> decoded_message, count |-> -1, ws |-> ws]
  ELSE UnpackResult(c, decoded_message,
         decode_bytes(c, ws, PackData(c, MessagePart(c, received_bits)),
                      (c.K + 7) \div 8, PackEcc(c, received_bits)))

\* "decoded_message.resize(K); copy Y_N + n_rdncy; return !_decode(...)"
BitwiseResult(c, r) ==
  [ret |-> r.status = 0, out |-> MessagePart(c, r.Y_N),
   status |-> r.status, Y_N |-> r.Y_N, flipped |-> r.flipped, ws |-> r.ws]

\* the bit-wise decode(received_bits, decoded_message) built on _decode
decode_bits_bitwise(c, ws, received_bits, decoded_message) ==
  IF VecLen(received_bits) # c.N
  THEN [ret |-> FALSE, out |-> decoded_message, status |-> 1,
        Y_N |-> received_bits, flipped |-> 0, ws |-> ws]
  ELSE BitwiseResult(c, _decode(c, ws, received_bits))

(***************************************************************************)
(* The state: one codec instance with its decoding buffers, a caller that  *)
(* encodes a message, sends the codeword over a channel that flips bits    *)
(* and decodes what it receives, and two threads that call into the same   *)
(* instance with their steps interleaved.                                  *)
(***************************************************************************)
VARIABLES
  bch,          \* the fields the constructor sets: dimensions and tables
  elp,          \* decoding buffers of the instance
  discrepancy,
  l,
  u_lu,
  s,
  loc,
  reg,
  ub,           \* some call indexed a table or buffer outside its range
  stage,        \* "new", "encoded", "received" or "decoded"
  message,      \* the K message bits of the caller
  codeword,     \* what the encoder returned for message, [parity | message]
  errors,       \* the codeword positions the channel flipped
  received,     \* the word handed to the decoder
  out,          \* the caller's vector for the decoded message
  call,         \* the last completed call: its operation and results
  sent,         \* how many words the channel has delivered
  prior,        \* the decode call completed before the last delivery
  thr           \* per thread: the call in progress, its locals and results

buffers == <<elp, discrepancy, l, u_lu, s, loc, reg, ub>>

caller == <<stage, message, codeword, errors, received, out, call, sent, prior>>

vars == <<bch, elp, discrepancy, l, u_lu, s, loc, reg, ub,
          stage, message, codeword, errors, received, out, call, sent, prior, thr>>

\* the instance buffers as one record
WS == [elp |-> elp, discrepancy |-> discrepancy, l |-> l, u_lu |-> u_lu,
       s |-> s, loc |-> loc, reg |-> reg, ub |-> ub]

SetBuffers(ws) ==
  /\ elp' = ws.elp
  /\ discrepancy' = ws.discrepancy
  /\ l' = ws.l
  /\ u_lu' = ws.u_lu
  /\ s' = ws.s
  /\ loc' = ws.loc
  /\ reg' = ws.reg
  /\ ub' = ws.ub

\* the (N, t) pairs of the codecs built, each with its default polynomial
SmallCodecs == {<<7, 1>>, <<7, 2>>, <<7, 3>>, <<15, 1>>, <<15, 2>>, <<15, 3>>}

LargeCodecs == {<<31, 1>>, <<31, 2>>, <<31, 3>>}

\* a codec whose parity fills more than one 32-bit word
WideCodecs == {<<63, 6>>}

Codecs == SmallCodecs \cup LargeCodecs \cup WideCodecs

\* the codecs driven through call sequences and through interleaved calls
SeqCodecs == {<<7, 2>>, <<15, 1>>, <<15, 2>>, <<15, 3>>}

ConcCodecs == {<<15, 1>>, <<15, 2>>}

Threads == {1, 2}

\* the subsets of S with at most w elements
RECURSIVE SubsetsUpTo(_, _)
SubsetsUpTo(S, w) ==
  IF w = 0 THEN {{}}
  ELSE {A \cup B : A \in SubsetsUpTo(S, w - 1), B \in {{}} \cup {{x} : x \in S}}

BitsOf(n, S) == [i \in 0 .. n - 1 |-> IF i \in S THEN 1 ELSE 0]

\* the 0101.. message of the tests and its complement
TestMessages(c) ==
  {[i \in 0 .. c.K - 1 |-> i % 2], [i \in 0 .. c.K - 1 |-> (i + 1) % 2]}

\* the messages of weight at most MaxMsgWeight and their complements
Messages(c) ==
  {BitsOf(c.K, A) : A \in SubsetsUpTo(0 .. c.K - 1, MaxMsgWeight)}
    \cup {BitsOf(c.K, (0 .. c.K - 1) \ A) : A \in SubsetsUpTo(0 .. c.K - 1, MaxMsgWeight)}

\* the ends of the parity part and of the message part of a codeword
EdgeSites(c) == {0, c.n_rdncy - 1, c.n_rdncy, c.N - 1}

\* positions spread over a long codeword
SpreadSites(c) == {i \in 0 .. c.N - 1 : i % SiteStride = 0} \cup EdgeSites(c)

\* a chain of patterns of weight 0, 1, .. t + MaxExtraErr
ChainPatterns(c) ==
  {{i \in 0 .. c.N - 1 : i % ChainStride = 0 /\ i \div ChainStride < w} :
     w \in 0 .. c.t + MaxExtraErr}

\* the error patterns of the channel: every pattern of weight at most
\* t + MaxExtraErr on a short codeword; on a longer one every single error
\* and the patterns over the spread positions; on the longest every single
\* error and a chain of patterns
ErrorPatterns(c) ==
  IF c.N <= MaxDenseN
  THEN SubsetsUpTo(0 .. c.N - 1, c.t + MaxExtraErr)
  ELSE IF c.N <= MaxSpreadN
  THEN SubsetsUpTo(SpreadSites(c), c.t + MaxExtraErr)
         \cup {{i} : i \in 0 .. c.N - 1}
  ELSE ChainPatterns(c) \cup {{i} : i \in 0 .. c.N - 1}

\* the error patterns of a channel that hits the edges only
EdgePatterns(c) == SubsetsUpTo(EdgeSites(c), c.t + MaxExtraErr)

Flip(w, E) == [i \in DOMAIN w |-> IF i \in E THEN 1 - w[i] ELSE w[i]]

EmptyVec == [i \in {} |-> 0]

NoCall == [op |-> "none", ok |-> TRUE]

\* a thread that has not called yet
Idle ==
  [op |-> "none", pc |-> "idle", mixed |-> FALSE,
   arg_data |-> EmptyVec, arg_ecc |-> EmptyVec, data |-> EmptyVec, ecc |-> EmptyVec,
   msg |-> EmptyVec, bits |-> EmptyVec, par |-> EmptyVec,
   i |-> 0, u |-> 0, sv |-> EmptyVec, count |-> 0, ret |-> 0]

InitCodec(cfg) ==
  /\ bch = LiteBCH(cfg[1], cfg[2], <<>>)
  /\ elp = FreshBuffers(bch).elp
  /\ discrepancy = FreshBuffers(bch).discrepancy
  /\ l = FreshBuffers(bch).l
  /\ u_lu = FreshBuffers(bch).u_lu
  /\ s = FreshBuffers(bch).s
  /\ loc = FreshBuffers(bch).loc
  /\ reg = FreshBuffers(bch).reg
  /\ ub = FALSE

InitCaller ==
  /\ stage = "new"
  /\ codeword = EmptyVec
  /\ errors = {}
  /\ received = EmptyVec
  /\ out = EmptyVec
  /\ call = NoCall
  /\ sent = 0
  /\ prior = NoCall
  /\ thr = [t \in Threads |-> Idle]

Init ==
  /\ \E cfg \in Codecs : InitCodec(cfg)
  /\ message \in TestMessages(bch)
  /\ InitCaller

\* a field of the instance after a write through an index outside its vector
\* landed in it
StrayWrite(c) == [c EXCEPT !.index_of = [c.index_of EXCEPT ![0] = 0]]

\* as FieldsAfter, of a call that writes outside a buffer
FieldsAfterStray(c, ws) == {c, StrayWrite(c)}

\* the fields the constructor set, as a call leaves them: encode and decode
\* assign only their locals and the buffers s, elp, discrepancy, l, u_lu, reg
\* and loc, every table is read; once a call has indexed outside a vector
\* the write may have landed anywhere
FieldsAfter(c, ws) == IF ws.ub THEN FieldsAfterStray(c, ws) ELSE {c}

\* the caller encodes message with encode_bits
EncodeBits ==
  /\ stage = "new"
  /\ stage' = "encoded"
  /\ codeword' = encode_bits(bch, message)
  /\ call' = [op |-> "encode_bits", ok |-> TRUE]
  /\ bch' \in FieldsAfter(bch, WS)
  /\ UNCHANGED <<buffers, message, errors, received, out, sent, prior, thr>>

\* the caller encodes message with encode_bytes on its MSB-first packing and
\* rebuilds the codeword [parity | message] from the parity bytes
EncodeBytes ==
  /\ stage = "new"
  /\ stage' = "encoded"
  /\ \E ecc \in {encode_bytes(bch, PackData(bch, message))} :
       /\ codeword' = [i \in 0 .. bch.N - 1 |->
                         IF i < bch.n_rdncy THEN EccBit(ecc, i)
                         ELSE message[i - bch.n_rdncy]]
       /\ call' = [op |-> "encode_bytes", ok |-> TRUE, ecc_out |-> ecc]
  /\ bch' \in FieldsAfter(bch, WS)
  /\ UNCHANGED <<buffers, message, errors, received, out, sent, prior, thr>>

\* the channel delivers the codeword with the positions E flipped
Deliver(E) ==
  /\ errors' = E
  /\ received' = Flip(codeword, E)
  /\ stage' = "received"
  /\ sent' = sent + 1
  /\ call' = NoCall
  /\ UNCHANGED <<bch, buffers, message, codeword, out, thr>>

Transmit ==
  /\ stage = "encoded"
  /\ prior' = prior
  /\ \E E \in ErrorPatterns(bch) : Deliver(E)

\* the same through a channel that hits the edges only
TransmitEdges ==
  /\ stage = "encoded"
  /\ prior' = prior
  /\ \E E \in EdgePatterns(bch) : Deliver(E)

\* the codeword is sent again after a decode, the instance buffers as the
\* earlier calls left them
Retransmit ==
  /\ stage = "decoded"
  /\ sent < MaxCalls
  /\ prior' = [op |-> call.op, ok |-> call.ok]
  /\ \E E \in EdgePatterns(bch) : Deliver(E)

\* decode_bits(received, out) through the byte decoder
DecodeBits ==
  /\ stage = "received"
  /\ stage' = "decoded"
  /\ \E r \in {decode_bits(bch, WS, received, out)} :
       /\ call' = [op |-> "decode_bits", ok |-> r.ret, count |-> r.count]
       /\ out' = r.out
       /\ SetBuffers(r.ws)
       /\ bch' \in FieldsAfter(bch, r.ws)
  /\ UNCHANGED <<message, codeword, errors, received, sent, prior, thr>>

\* decode_bytes(data, ceil(K/8), ecc) on the packing of received
DecodeBytes ==
  /\ stage = "received"
  /\ stage' = "decoded"
  /\ \E r \in {decode_bytes(bch, WS, PackData(bch, MessagePart(bch, received)),
                             (bch.K + 7) \div 8, PackEcc(bch, received))} :
       /\ call' = [op |-> "decode_bytes", ok |-> r.ret >= 0, ret |-> r.ret,
                   data |-> r.data, ecc |-> r.ecc]
       /\ SetBuffers(r.ws)
       /\ bch' \in FieldsAfter(bch, r.ws)
  /\ UNCHANGED <<message, codeword, errors, received, out, sent, prior, thr>>

\* the bit-wise decode(received, out): _decode on a copy of received
DecodeBitwise ==
  /\ stage = "received"
  /\ stage' = "decoded"
  /\ \E r \in {decode_bits_bitwise(bch, WS, received, out)} :
       /\ call' = [op |-> "decode_bits_bitwise", ok |-> r.ret,
                   status |-> r.status, Y_N |-> r.Y_N, flipped |-> r.flipped]
       /\ out' = r.out
       /\ SetBuffers(r.ws)
       /\ bch' \in FieldsAfter(bch, r.ws)
  /\ UNCHANGED <<message, codeword, errors, received, sent, prior, thr>>

Next ==
  \/ EncodeBits
  \/ EncodeBytes
  \/ Transmit
  \/ DecodeBits
  \/ DecodeBytes
  \/ DecodeBitwise

Spec == Init /\ [][Next]_vars

\* the encoders alone, on many messages
InitEnc ==
  /\ \E cfg \in Codecs : InitCodec(cfg)
  /\ message \in Messages(bch)
  /\ InitCaller

NextEnc == EncodeBits \/ EncodeBytes

SpecEnc == InitEnc /\ [][NextEnc]_vars

\* sequences of calls on one instance
InitSeq ==
  /\ \E cfg \in SeqCodecs : InitCodec(cfg)
  /\ message \in TestMessages(bch)
  /\ InitCaller

NextSeq ==
  \/ EncodeBits
  \/ EncodeBytes
  \/ TransmitEdges
  \/ Retransmit
  \/ DecodeBits
  \/ DecodeBytes
  \/ DecodeBitwise

SpecSeq == InitSeq /\ [][NextSeq]_vars

(***************************************************************************)
(* Calls in progress.  Two callers share the instance; each call advances  *)
(* one loop pass at a time, its locals in thr[t], the decoding buffers in  *)
(* the instance.                                                           *)
(***************************************************************************)
\* the message thread t works on
ThreadMessage(t) == IF t = 1 THEN message ELSE [i \in DOMAIN message |-> 1 - message[i]]

\* a decode call is between its entry and its return on thread t
Decoding(t) == thr[t].op = "decode_bytes" /\ thr[t].pc # "done"

\* EncRegister when the calls of one kind read one register of the
\* instance, the one thread 1 writes
EncRegisterShared(t) == thr[IF thr[1].op = thr[t].op THEN 1 ELSE t].par

\* the encoder's register of thread t: "std::vector<uint32_t> par(ecc_words, 0)"
\* and "std::vector<B> par(n_rdncy)" are locals of the call
EncRegister(t) == thr[t].par

\* thread t enters decode(data, len, ecc) with the packing of a codeword hit
\* by a chain pattern; another decode in progress makes both calls mixed
CallDecode(t) ==
  /\ thr[t].pc = "idle"
  /\ \E E \in ChainPatterns(bch), o \in Threads \ {t} :
       \E w \in {Flip(encode_bits(bch, ThreadMessage(t)), E)} :
         thr' = [thr EXCEPT
                   ![t] = [@ EXCEPT !.op = "decode_bytes", !.pc = "syndromes",
                                    !.mixed = Decoding(o),
                                    !.arg_data = PackData(bch, MessagePart(bch, w)),
                                    !.arg_ecc = PackEcc(bch, w),
                                    !.data = PackData(bch, MessagePart(bch, w)),
                                    !.ecc = PackEcc(bch, w)],
                   ![o] = [@ EXCEPT !.mixed = @ \/ Decoding(o)]]
  /\ UNCHANGED <<bch, buffers, caller>>

\* the syndromes, in the local s_poly; "if (!syn_error) return 0"
DecSyndromes(t) ==
  /\ thr[t].pc = "syndromes"
  /\ \E sv \in {SyndromesBytePath(bch, thr[t].data, thr[t].ecc)} :
       thr' = [thr EXCEPT ![t] =
                 IF SynError(bch, sv)
                 THEN [@ EXCEPT !.sv = sv, !.pc = "init"]
                 ELSE [@ EXCEPT !.sv = sv, !.pc = "done", !.ret = 0]]
  /\ UNCHANGED <<bch, buffers, caller>>

\* "this->s = s_poly" and the initial conditions; "u = 0"
DecInit(t) ==
  /\ thr[t].pc = "init"
  /\ SetBuffers(BMInit(bch, WS, thr[t].sv))
  /\ thr' = [thr EXCEPT ![t] = [@ EXCEPT !.u = 0, !.pc = "bm"]]
  /\ UNCHANGED <<bch, caller>>

\* one pass of the do-while loop on the buffers as they are now
DecBM(t) ==
  /\ thr[t].pc = "bm"
  /\ \E ws \in {BMIter(bch, WS, thr[t].u + 1)} :
       /\ SetBuffers(ws)
       /\ thr' = [thr EXCEPT ![t] =
                    [@ EXCEPT !.u = @ + 1,
                              !.pc = IF BMContinue(bch, ws, thr[t].u + 1)
                                     THEN "bm" ELSE "chien"]]
  /\ UNCHANGED <<bch, caller>>

\* "u++; if (l[u] <= t) { Chien search; if (count == l[u]) ... }"
DecChien(t) ==
  /\ thr[t].pc = "chien"
  /\ \E fin \in {Locate(bch, WS, thr[t].u + 1, TRUE)} :
       /\ SetBuffers(fin.ws)
       /\ thr' = [thr EXCEPT ![t] =
                    IF fin.found /\ fin.count = fin.ws.l[thr[t].u + 1]
                    THEN [@ EXCEPT !.u = @ + 1, !.count = fin.count, !.pc = "correct"]
                    ELSE [@ EXCEPT !.u = @ + 1, !.ret = -1, !.pc = "done"]]
  /\ UNCHANGED <<bch, caller>>

\* the correction loop over loc[0 .. count-1]; "return count"
DecCorrect(t) ==
  /\ thr[t].pc = "correct"
  /\ \E fixed \in {CorrectBytes(bch, loc, thr[t].data, (bch.K + 7) \div 8,
                                thr[t].ecc, thr[t].count)} :
       thr' = [thr EXCEPT ![t] =
                 [@ EXCEPT !.data = fixed.data, !.ecc = fixed.ecc,
                           !.ret = thr[t].count, !.pc = "done"]]
  /\ UNCHANGED <<bch, buffers, caller>>

\* thread t enters encode(data, len, ecc_out) on the packing of its message
CallEncodeBytes(t) ==
  /\ thr[t].pc = "idle"
  /\ thr' = [thr EXCEPT ![t] =
               [@ EXCEPT !.op = "encode_bytes", !.pc = "enc_bytes",
                         !.arg_data = PackData(bch, ThreadMessage(t)),
                         !.par = [w \in 0 .. bch.ecc_words - 1 |-> ZeroWord],
                         !.i = 0]]
  /\ UNCHANGED <<bch, buffers, caller>>

\* one pass of the full-byte loop
EncByte(t) ==
  /\ thr[t].pc = "enc_bytes"
  /\ thr[t].i < bch.K \div 8
  /\ thr' = [thr EXCEPT ![t] =
               [@ EXCEPT !.par = EncodeByteStep(bch, EncRegister(t),
                                                thr[t].arg_data[thr[t].i]),
                         !.i = @ + 1]]
  /\ UNCHANGED <<bch, buffers, caller>>

\* the bitwise tail, the final mask and the bytes written to ecc_out
EncFinish(t) ==
  /\ thr[t].pc = "enc_bytes"
  /\ thr[t].i = bch.K \div 8
  /\ \E par \in {IF bch.K % 8 > 0
                 THEN apply_mask(EncodeTail(bch, EncRegister(t),
                                            thr[t].arg_data[bch.K \div 8],
                                            0, (bch.K % 8) - 1),
                                 bch.ecc_bits)
                 ELSE EncRegister(t)} :
       thr' = [thr EXCEPT ![t] =
                 [@ EXCEPT !.par = par, !.ecc = EccOut(bch, par), !.pc = "done"]]
  /\ UNCHANGED <<bch, buffers, caller>>

\* thread t enters encode(message_bits)
CallEncodeBits(t) ==
  /\ thr[t].pc = "idle"
  /\ thr' = [thr EXCEPT ![t] =
               [@ EXCEPT !.op = "encode_bits", !.pc = "enc_bits",
                         !.msg = ThreadMessage(t),
                         !.par = [j \in 0 .. bch.n_rdncy - 1 |-> 0],
                         !.i = bch.K - 1]]
  /\ UNCHANGED <<bch, buffers, caller>>

\* one pass of the outer loop of __encode
EncBit(t) ==
  /\ thr[t].pc = "enc_bits"
  /\ thr[t].i >= 0
  /\ thr' = [thr EXCEPT ![t] =
               [@ EXCEPT !.par = EncodeBitStep(bch, EncRegister(t), thr[t].msg[thr[t].i]),
                         !.i = @ - 1]]
  /\ UNCHANGED <<bch, buffers, caller>>

\* parity and message copied into the vector returned
EncBitsOut(t) ==
  /\ thr[t].pc = "enc_bits"
  /\ thr[t].i < 0
  /\ thr' = [thr EXCEPT ![t] =
               [@ EXCEPT !.bits = Systematic(bch, EncRegister(t), thr[t].msg),
                         !.pc = "done"]]
  /\ UNCHANGED <<bch, buffers, caller>>

InitConc ==
  /\ \E cfg \in ConcCodecs : InitCodec(cfg)
  /\ message \in TestMessages(bch)
  /\ InitCaller

NextConc ==
  \E t \in Threads :
    \/ CallDecode(t)
    \/ DecSyndromes(t)
    \/ DecInit(t)
    \/ DecBM(t)
    \/ DecChien(t)
    \/ DecCorrect(t)
    \/ CallEncodeBytes(t)
    \/ EncByte(t)
    \/ EncFinish(t)
    \/ CallEncodeBits(t)
    \/ EncBit(t)
    \/ EncBitsOut(t)

SpecConc == InitConc /\ [][NextConc]_vars

(***************************************************************************)
(* Construction and calls with arbitrary arguments.  The constructor and   *)
(* encode(bits) either return or throw; a call that indexes outside a      *)
(* vector has no defined outcome and every outcome is kept.                *)
(***************************************************************************)
\* the smallest and the largest m select_polynomial has a branch for
MinM == 3

MaxM == 16

\* "if (N != ((1 << m) - 1)) throw std::invalid_argument"
BadLength(NN) == NN # Pow2(CeilLog2(NN)) - 1

\* as BadPolynomialSize, were only a short vector refused
BadPolynomialSizeShort(NN, pp) == pp # <<>> /\ Len(pp) < CeilLog2(NN) + 1

\* "if (!p.empty()) if ((int)p.size() != m + 1) throw std::invalid_argument"
BadPolynomialSize(NN, pp) == pp # <<>> /\ Len(pp) # CeilLog2(NN) + 1

\* no cycle set holds a root in 1 .. d-1: zeros has the one entry zeros[0] and
\* "g[0] = alpha_to[zeros[1]]; g[1] = 1" index outside zeros and outside g
NoRoots(NN, tt) == GenZeros(NN, (2 * tt) + 1) = <<>>

\* no instance: the constructor threw or has not run
NoCodec == [N |-> 0]

\* the constructor left by an exception: no step after the throw has run
Threw(what) ==
  [threw |-> what, codec |-> NoCodec, steps |-> <<>>, raw |-> EmptyVec, ub |-> FALSE]

\* the constructor run to its end
Built(c) ==
  [threw |-> "none", codec |-> c,
   steps |-> <<"init_galois", "compute_generator_polynomial", "init_fast_tables">>,
   raw |-> GenPolyRaw(c.N, c.d, c.alpha_to, c.index_of), ub |-> FALSE]

\* the outcomes of a constructor that indexed outside zeros and g: the process
\* ends, or an instance is returned whose generator is the one masked value
\* read from outside zeros
Undefined(NN, tt) ==
  {[threw |-> "terminated", codec |-> NoCodec, steps |-> <<"init_galois">>,
    raw |-> EmptyVec, ub |-> TRUE]}
  \cup {[threw |-> "none",
         codec |-> [N |-> NN, t |-> tt, d |-> (2 * tt) + 1, n_rdncy |-> 0, K |-> NN,
                    g |-> [j \in {0} |-> b]],
         steps |-> <<"init_galois", "compute_generator_polynomial", "init_fast_tables">>,
         raw |-> EmptyVec, ub |-> TRUE] : b \in {0, 1}}

\* LiteBCH::LiteBCH(N, t, p) on any arguments: the set of its outcomes
construct(NN, tt, pp) ==
  IF BadLength(NN) THEN {Threw("invalid_argument")}
  ELSE IF BadPolynomialSize(NN, pp) THEN {Threw("invalid_argument")}
  ELSE IF NoRoots(NN, tt) THEN Undefined(NN, tt)
  ELSE {Built(LiteBCH(NN, tt, pp))}

\* as MessageSizeMismatch, were only a short message refused
MessageSizeShort(c, message_bits) == VecLen(message_bits) < c.K

\* "if (message_bits.size() != (size_t)K) throw std::invalid_argument"
MessageSizeMismatch(c, message_bits) == VecLen(message_bits) # c.K

\* encode(message_bits) on a vector of any size; past the size test the
\* loops of __encode run over K bits and return
encode(c, message_bits) ==
  IF MessageSizeMismatch(c, message_bits)
  THEN [threw |-> "invalid_argument", encoded |-> EmptyVec]
  ELSE [threw |-> "none",
        encoded |-> encode_bits(c, [i \in 0 .. c.K - 1 |-> message_bits[i]])]

\* the vectors p a caller supplies: none, every 0/1 vector of the right size,
\* and vectors one entry short or long
Polynomials(NN) ==
  {<<>>}
    \cup [1 .. CeilLog2(NN) + 1 -> {0, 1}]
    \cup {[i \in 1 .. n |-> IF i = 1 \/ i = n \/ i = 2 THEN 1 ELSE 0] :
            n \in {CeilLog2(NN), CeilLog2(NN) + 2}}

\* the arguments (N, t, p) of the constructor calls: every short length with
\* every small t and every such p, and the longer codecs with no p
ConstructorArgs ==
  UNION {{<<NN, tt, pp>> : tt \in 0 .. MaxCapability, pp \in Polynomials(NN)} :
           NN \in 1 .. MaxLength}
    \cup {<<cfg[1], cfg[2], <<>>>> : cfg \in LargeCodecs \cup WideCodecs}

\* the message vectors handed to encode: sizes around K, two bit patterns
AnyMessages(c) ==
  {[i \in 0 .. n - 1 |-> (i + b) % 2] :
     n \in {k \in {c.K - 1, c.K, c.K + 1} : k >= 0}, b \in {0, 1}}

InitApi ==
  /\ bch = NoCodec
  /\ elp = EmptyVec
  /\ discrepancy = EmptyVec
  /\ l = EmptyVec
  /\ u_lu = EmptyVec
  /\ s = EmptyVec
  /\ loc = EmptyVec
  /\ reg = EmptyVec
  /\ ub = FALSE
  /\ message = EmptyVec
  /\ stage = "start"
  /\ codeword = EmptyVec
  /\ errors = {}
  /\ received = EmptyVec
  /\ out = EmptyVec
  /\ call = NoCall
  /\ sent = 0
  /\ prior = NoCall
  /\ thr = [t \in Threads |-> Idle]

\* a caller constructs an instance
Construct ==
  /\ stage = "start"
  /\ \E args \in ConstructorArgs :
       \E r \in construct(args[1], args[2], args[3]) :
         /\ bch' = r.codec
         /\ call' = [op |-> "construct", ok |-> r.threw = "none", threw |-> r.threw,
                     N |-> args[1], t |-> args[2], p |-> args[3],
                     steps |-> r.steps, raw |-> r.raw]
         /\ stage' = IF r.threw = "none" THEN "new" ELSE "failed"
         /\ IF r.threw = "none" /\ ~r.ub
            THEN SetBuffers(FreshBuffers(r.codec))
            ELSE SetBuffers([WS EXCEPT !.ub = r.ub])
  /\ UNCHANGED <<message, codeword, errors, received, out, sent, prior, thr>>

\* the caller hands a vector of any size to encode(bits)
EncodeAny ==
  /\ stage = "new"
  /\ call.op = "construct"
  /\ ~ub
  /\ \E msg \in AnyMessages(bch) :
       \E r \in {encode(bch, msg)} :
         /\ message' = msg
         /\ codeword' = r.encoded
         /\ call' = [op |-> "encode_bits", ok |-> r.threw = "none", threw |-> r.threw]
         /\ stage' = IF r.threw = "none" THEN "encoded" ELSE "new"
  /\ bch' \in FieldsAfter(bch, WS)
  /\ UNCHANGED <<buffers, errors, received, out, sent, prior, thr>>

\* select_polynomial on its own, for an m it has a branch for
SelectPolynomial ==
  /\ stage = "start"
  /\ \E mm \in MinM .. MaxM :
       call' = [op |-> "select_polynomial", ok |-> TRUE, m |-> mm,
                p |-> select_polynomial(mm)]
  /\ stage' = "selected"
  /\ UNCHANGED <<bch, buffers, message, codeword, errors, received, out, sent,
                 prior, thr>>

\* init_galois on its own, on the default polynomial of m
InitGalois ==
  /\ stage = "start"
  /\ \E mm \in MinM .. MaxFieldM :
       \E gf \in {init_galois(Pow2(mm) - 1, mm, select_polynomial(mm))} :
         call' = [op |-> "init_galois", ok |-> TRUE, m |-> mm,
                  alpha_to |-> gf.alpha_to, index_of |-> gf.index_of]
  /\ stage' = "tabled"
  /\ UNCHANGED <<bch, buffers, message, codeword, errors, received, out, sent,
                 prior, thr>>

NextApi ==
  \/ Construct
  \/ EncodeAny
  \/ SelectPolynomial
  \/ InitGalois

SpecApi == InitApi /\ [][NextApi]_vars

(***************************************************************************)
(* Byte buffers as callers hold them: len bytes, the bits past the K       *)
(* message bits and past the n_rdncy parity bits set by the caller.        *)
(***************************************************************************)
PadCodecs == SmallCodecs \cup {<<31, 3>>} \cup WideCodecs

\* the bits of the last data byte below the K message bits
PadBits(c) == (8 * ((c.K + 7) \div 8)) - c.K

\* the bits of the last ecc byte from n_rdncy up
EccPadBits(c) == (8 * c.ecc_bytes) - c.n_rdncy

\* what a caller leaves in n unused bits: nothing, all of them, one of them
PadValues(n) == {0, Pow2(n) - 1} \cup {Pow2(k) : k \in 0 .. n - 1}

\* what lies behind the end of a caller's buffer
StrayBytes == {0, 255}

\* the indices encode(data, len, ecc_out) reads data at: "data[i]" for
\* i < full_bytes and "data[full_bytes]" when rem_bits > 0; len is not used
EncodeReads(c) ==
  (0 .. (c.K \div 8) - 1) \cup (IF c.K % 8 > 0 THEN {c.K \div 8} ELSE {})

\* a buffer of len bytes holding msg MSB-first, pad in the unused bits
DataBuffer(c, msg, len, pad) ==
  Mat([i \in 0 .. len - 1 |->
         DataByte(c, msg, i, 0) + (IF i = ((c.K + 7) \div 8) - 1 THEN pad ELSE 0)])

\* the bytes a call finds at the indices it reads: the buffer, and beyond
\* past its end
BytesRead(c, buf, len, beyond) ==
  Mat([i \in (0 .. len - 1) \cup EncodeReads(c) |-> IF i < len THEN buf[i] ELSE beyond])

\* the ecc buffer of ecc_bytes bytes holding the parity bits of a word, pad
\* in the unused bits of the last byte
EccBuffer(c, bits, pad) ==
  Mat([i \in 0 .. c.ecc_bytes - 1 |->
         ParityByte(c, bits, i, 0)
           + (IF i = c.ecc_bytes - 1 THEN pad * Pow2(8 - EccPadBits(c)) ELSE 0)])

InitPad ==
  /\ \E cfg \in PadCodecs : InitCodec(cfg)
  /\ message \in TestMessages(bch)
  /\ InitCaller

\* encode(data, len, ecc_out) on a buffer of len = K/8 or ceil(K/8) bytes
EncodeBuffer ==
  /\ stage = "new"
  /\ stage' = "encoded"
  /\ \E len \in {bch.K \div 8, (bch.K + 7) \div 8} :
       \E pad \in (IF len = (bch.K + 7) \div 8 THEN PadValues(PadBits(bch)) ELSE {0}) :
         \E beyond \in (IF len = (bch.K + 7) \div 8 THEN {0} ELSE StrayBytes) :
           \E buf \in {DataBuffer(bch, message, len, pad)} :
             \E ecc \in {encode_bytes(bch, BytesRead(bch, buf, len, beyond))} :
               /\ codeword' = [i \in 0 .. bch.N - 1 |->
                                 IF i < bch.n_rdncy THEN EccBit(ecc, i)
                                 ELSE message[i - bch.n_rdncy]]
               /\ call' = [op |-> "encode_bytes", ok |-> TRUE, ecc_out |-> ecc,
                           data |-> buf, len |-> len, reads |-> EncodeReads(bch)]
               /\ ub' = (ub \/ \E i \in EncodeReads(bch) : i >= len)
  /\ bch' \in FieldsAfter(bch, WS)
  /\ UNCHANGED <<elp, discrepancy, l, u_lu, s, loc, reg, message, errors, received,
                 out, sent, prior, thr>>

\* decode(data, ceil(K/8), ecc) on buffers holding the received word, with
\* whatever the caller left in the unused bits of the two last bytes
DecodeBuffer ==
  /\ stage = "received"
  /\ stage' = "decoded"
  /\ \E dpad \in PadValues(PadBits(bch)), epad \in PadValues(EccPadBits(bch)) :
       \E data \in {DataBuffer(bch, MessagePart(bch, received),
                               (bch.K + 7) \div 8, dpad)} :
         \E ecc \in {EccBuffer(bch, received, epad)} :
           \E r \in {decode_bytes(bch, WS, data, (bch.K + 7) \div 8, ecc)} :
             /\ call' = [op |-> "decode_bytes", ok |-> r.ret >= 0, ret |-> r.ret,
                         data |-> r.data, ecc |-> r.ecc,
                         arg_data |-> data, arg_ecc |-> ecc]
             /\ SetBuffers(r.ws)
             /\ bch' \in FieldsAfter(bch, r.ws)
  /\ UNCHANGED <<message, codeword, errors, received, out, sent, prior, thr>>

NextPad ==
  \/ EncodeBuffer
  \/ TransmitEdges
  \/ DecodeBuffer

SpecPad == InitPad /\ [][NextPad]_vars

\* codecs built with a polynomial the caller supplies: the two primitive
\* polynomials of degree 3, and x^3 + 1 and x^3 + x^2 + x + 1, which the
\* constructor takes as well; and BCH(15, 4) with its default polynomial,
\* whose Berlekamp iteration runs up to eight steps
SuppliedCodecs ==
  {<<7, tt, pp>> : tt \in {1, 2},
                   pp \in {<<1, 1, 0, 1>>, <<1, 0, 1, 1>>, <<1, 0, 0, 1>>, <<1, 1, 1, 1>>}}
    \cup {<<15, 4, <<>>>>}

InitSupplied ==
  /\ \E cfg \in SuppliedCodecs :
       \E r \in construct(cfg[1], cfg[2], cfg[3]) :
         /\ r.threw = "none"
         /\ bch = r.codec
  /\ elp = FreshBuffers(bch).elp
  /\ discrepancy = FreshBuffers(bch).discrepancy
  /\ l = FreshBuffers(bch).l
  /\ u_lu = FreshBuffers(bch).u_lu
  /\ s = FreshBuffers(bch).s
  /\ loc = FreshBuffers(bch).loc
  /\ reg = FreshBuffers(bch).reg
  /\ ub = FALSE
  /\ message \in TestMessages(bch)
  /\ InitCaller

NextSupplied ==
  \/ EncodeBits
  \/ Transmit
  \/ DecodeBytes

SpecSupplied == InitSupplied /\ [][NextSupplied]_vars

(***************************************************************************)
(* Properties.                                                             *)
(***************************************************************************)
\* the word encode_bits returns for the caller's message, hit by the errors
SentWord == Flip(encode_bits(bch, message), errors)

\* the positions where two words of the same length differ
Changed(a, b) == {i \in DOMAIN a : a[i] # b[i]}

\* the codeword [parity | message] held in a pair of byte buffers
ByteWord(c, data, ecc) ==
  [i \in 0 .. c.N - 1 |->
     IF i < c.n_rdncy THEN EccBit(ecc, i) ELSE DataBit(c, data, i - c.n_rdncy)]

\* the number of set bits of a byte
RECURSIVE Ones(_)
Ones(x) == IF x = 0 THEN 0 ELSE (x % 2) + Ones(x \div 2)

\* the number of bit positions where the first n bytes of two buffers differ
RECURSIVE DiffBits(_, _, _)
DiffBits(a, b, n) ==
  IF n = 0 THEN 0 ELSE Ones(Xor(a[n - 1], b[n - 1])) + DiffBits(a, b, n - 1)

\* the byte buffers hold a codeword: the parity of data is ecc
IsCodeword(c, data, ecc) ==
  LET calc == encode_bytes(c, data)
  IN \A i \in 0 .. c.n_rdncy - 1 : EccBit(calc, i) = EccBit(ecc, i)

\* C1: decode_bits applied to encode_bits(M) with at most t bits flipped
\* returns true and writes M to out.
C1_CorrectsUpToT ==
  (call.op = "decode_bits" /\ Cardinality(errors) <= bch.t /\ received = SentWord)
    => (call.ok = TRUE /\ out = message)

\* t = 3 errors spread over a codeword of 31 bits have been corrected
C1_Witness ==
  /\ call.op = "decode_bits"
  /\ bch.N = 31 /\ bch.t = 3
  /\ errors = {0, 10, 20}
  /\ call.ok = TRUE
  /\ out = message

\* the parity bits of a byte buffer are the bits [0, n_rdncy) of a codeword
ParityAgrees(c, ecc, word) ==
  \A i \in 0 .. c.n_rdncy - 1 : EccBit(ecc, i) = word[i]

\* C2: the parity encode_bytes writes for the MSB-first packing of M, read
\* as bit i = bit (i % 8) of ecc_out[i / 8], is bits [0, n_rdncy) of
\* encode_bits(M), also when K % 8 # 0 and when n_rdncy < 8.
C2_ByteParityIsBitParity ==
  call.op = "encode_bytes"
    => ParityAgrees(bch, call.ecc_out, encode_bits(bch, message))

\* a message with a bitwise tail and fewer than 8 parity bits, parity not zero
C2_Witness ==
  /\ call.op = "encode_bytes"
  /\ bch.K % 8 # 0 /\ bch.K > 8
  /\ bch.n_rdncy < 8
  /\ \E i \in 0 .. bch.n_rdncy - 1 : EccBit(call.ecc_out, i) = 1

\* the byte decoder's outcome against the outcome r of _decode
PathsAgree(r) ==
  /\ (call.ret >= 0) = (r.status = 0)
  /\ Changed(ByteWord(bch, call.data, call.ecc), received) = Changed(r.Y_N, received)
  /\ call.ret >= 0 => call.ret = r.flipped

\* C3: on every received word the byte decoder and the bit decoder _decode
\* agree on success or failure and flip the same codeword positions.
C3_PathsAgree ==
  call.op = "decode_bytes" => PathsAgree(_decode(bch, FreshBuffers(bch), received))

\* two errors, one in the parity and one in the message, fixed by the byte path
C3_Witness ==
  /\ call.op = "decode_bytes"
  /\ bch.N = 15 /\ bch.t = 2
  /\ call.ret = 2
  /\ \E i \in errors : i < bch.n_rdncy
  /\ \E i \in errors : i >= bch.n_rdncy
  /\ Changed(ByteWord(bch, call.data, call.ecc), received) = errors

\* C4: decode_bits applied to encode_bits(M) unchanged returns true and
\* writes M to out.
C4_CleanRoundTrip ==
  (call.op = "decode_bits" /\ errors = {} /\ received = encode_bits(bch, message))
    => (call.ok = TRUE /\ out = message)

\* a clean codeword of 31 bits has been decoded
C4_Witness ==
  /\ call.op = "decode_bits"
  /\ errors = {}
  /\ bch.N = 31
  /\ VecLen(out) = bch.K
  /\ out = message

\* M(x) * x^n_rdncy as the coefficients 0 .. N-1
ShiftedMessage(c, msg) ==
  [i \in 0 .. c.N - 1 |-> IF i < c.n_rdncy THEN 0 ELSE msg[i - c.n_rdncy]]

\* one step of the long division by g over GF(2): cancel the term of degree d
DivideStep(c, D, d) ==
  IF D[d] = 0 THEN D
  ELSE Mat([i \in DOMAIN D |->
              IF i >= d - c.n_rdncy /\ i <= d
              THEN (D[i] + (c.g[i - (d - c.n_rdncy)] % 2)) % 2
              ELSE D[i]])

\* the steps for the degrees hi down to lo
RECURSIVE DivideRange(_, _, _, _)
DivideRange(c, D, hi, lo) ==
  IF hi < lo THEN D
  ELSE IF hi = lo THEN DivideStep(c, D, hi)
  ELSE LET half == DivideRange(c, D, hi, ((hi + lo) \div 2) + 1)
       IN Then(half, DivideRange(c, half, (hi + lo) \div 2, lo))

\* the remainder of M(x) * x^n_rdncy modulo g(x)
Remainder(c, msg) == DivideRange(c, ShiftedMessage(c, msg), c.N - 1, c.n_rdncy)

\* the word is [rem | msg] and the division left nothing above the remainder
IsSystematic(c, word, msg, rem) ==
  /\ VecLen(word) = c.N
  /\ \A i \in 0 .. c.K - 1 : word[c.n_rdncy + i] = msg[i]
  /\ \A i \in 0 .. c.n_rdncy - 1 : word[i] = rem[i]
  /\ \A i \in c.n_rdncy .. c.N - 1 : rem[i] = 0

\* C5: encode_bits(M) has length N, carries M at [n_rdncy, N) and at
\* [0, n_rdncy) the remainder of M(x) * x^n_rdncy modulo g(x) over GF(2).
C5_SystematicRemainder ==
  call.op = "encode_bits" => IsSystematic(bch, codeword, message, Remainder(bch, message))

\* a codeword of the (31, t = 3) codec with parity that is not zero
C5_Witness ==
  /\ call.op = "encode_bits"
  /\ bch.N = 31 /\ bch.t = 3
  /\ \E i \in 0 .. bch.n_rdncy - 1 : codeword[i] = 1
  /\ \E i \in 0 .. bch.K - 1 : message[i] = 1

\* the outcome of decode_bytes on the buffers (data_in, ecc_in)
CountsFlips(c, data_in, ecc_in) ==
  /\ call.ret >= 0 =>
       /\ call.ret <= c.t
       /\ call.ret = DiffBits(data_in, call.data, (c.K + 7) \div 8)
                       + DiffBits(ecc_in, call.ecc, c.ecc_bytes)
       /\ IsCodeword(c, call.data, call.ecc)
  /\ ~SynError(c, SyndromesBytePath(c, data_in, ecc_in)) =>
       (call.ret = 0 /\ call.data = data_in /\ call.ecc = ecc_in)
  /\ call.ret < 0 => (call.ret = -1 /\ call.data = data_in /\ call.ecc = ecc_in)

\* C6: decode_bytes with data_len = ceil(K / 8) returns c in 0 .. t, the
\* number of bit positions it flipped in data and ecc (0 with the buffers
\* unchanged when all syndromes are zero), and a negative value exactly on
\* the words with no codeword within t bit flips.
C6_ReturnsFlipCount ==
  call.op = "decode_bytes" =>
    /\ CountsFlips(bch, PackData(bch, MessagePart(bch, received)), PackEcc(bch, received))
    /\ Cardinality(errors) <= bch.t => call.ret = Cardinality(errors)
    /\ errors = {} => call.ret = 0

\* three flips, in the data and in the parity, counted on a codeword of 31 bits
C6_Witness ==
  /\ call.op = "decode_bytes"
  /\ bch.N = 31 /\ bch.t = 3
  /\ call.ret = 3
  /\ DiffBits(PackEcc(bch, received), call.ecc, bch.ecc_bytes) >= 1
  /\ DiffBits(PackData(bch, MessagePart(bch, received)), call.data,
              (bch.K + 7) \div 8) >= 1

\* C7: on an uncorrectable word decode_bits returns false and out has
\* length K whatever it held before.
C7_FailureResizesOut ==
  (call.op = "decode_bits" /\ call.ok = FALSE) => VecLen(out) = bch.K

\* decode_bits has failed on a word the caller passed with an empty out
C7_Witness ==
  /\ call.op = "decode_bits"
  /\ call.ok = FALSE
  /\ Cardinality(errors) = bch.t + 1
  /\ VecLen(out) = 0

\* the last decode call against the same call on buffers as constructed
FreshBits(r) ==
  /\ call.ok = r.ret
  /\ call.count = r.count
  /\ r.ret => out = r.out

FreshBytes(r) ==
  /\ call.ret = r.ret
  /\ call.data = r.data
  /\ call.ecc = r.ecc

FreshBitwise(r) ==
  /\ call.ok = r.ret
  /\ call.status = r.status
  /\ call.flipped = r.flipped
  /\ call.Y_N = r.Y_N
  /\ out = r.out

\* C8: a decode call returns the same success flag, number of corrections
\* and corrected output after any earlier calls on the instance as on a
\* fresh codec; a failed decode leaves the codec usable.
C8_NoHistoryDependence ==
  /\ call.op = "decode_bits" =>
       FreshBits(decode_bits(bch, FreshBuffers(bch), received, EmptyVec))
  /\ call.op = "decode_bytes" =>
       FreshBytes(decode_bytes(bch, FreshBuffers(bch),
                               PackData(bch, MessagePart(bch, received)),
                               (bch.K + 7) \div 8, PackEcc(bch, received)))
  /\ call.op = "decode_bits_bitwise" =>
       FreshBitwise(decode_bits_bitwise(bch, FreshBuffers(bch), received, EmptyVec))

\* the second decode on the instance corrects t = 2 errors after the first
\* one failed and left the buffers of a longer locator behind
C8_Witness ==
  /\ sent = 2
  /\ prior.op \in {"decode_bits", "decode_bytes", "decode_bits_bitwise"}
  /\ prior.ok = FALSE
  /\ call.op \in {"decode_bits", "decode_bytes", "decode_bits_bitwise"}
  /\ call.ok = TRUE
  /\ bch.t = 2
  /\ Cardinality(errors) = 2
  /\ elp # FreshBuffers(bch).elp

\* the decode call thread t has returned from, against the same call on a
\* codec no other call has used
ReturnsAlone(t, r) ==
  /\ thr[t].ret = r.ret
  /\ thr[t].data = r.data
  /\ thr[t].ecc = r.ecc

DecodeAlone(t) ==
  decode_bytes(bch, FreshBuffers(bch), thr[t].arg_data, (bch.K + 7) \div 8,
               thr[t].arg_ecc)

Returned(t, op) == thr[t].op = op /\ thr[t].pc = "done"

\* C9 as stated: the decode workspace is owned by the call, so two decode
\* calls whose steps interleave on one instance each return the result they
\* return when run alone.
C9_InterleavedDecodesAlone ==
  \A t \in Threads : Returned(t, "decode_bytes") => ReturnsAlone(t, DecodeAlone(t))

\* C9 amended: the buffers belong to the instance; a decode call during
\* which no other decode call is in progress on the instance returns the
\* result it returns when run alone, whatever calls came before it.
C9_ExclusiveDecodesAlone ==
  \A t \in Threads :
    (Returned(t, "decode_bytes") /\ ~thr[t].mixed) => ReturnsAlone(t, DecodeAlone(t))

\* a decode that corrected errors alone, after another thread's decode had
\* returned and left its locator in the buffers
C9_Witness ==
  \E t \in Threads, o \in Threads :
    /\ t # o
    /\ Returned(t, "decode_bytes") /\ ~thr[t].mixed /\ thr[t].ret >= 1
    /\ Returned(o, "decode_bytes") /\ ~thr[o].mixed /\ thr[o].ret # 0
    /\ elp # FreshBuffers(bch).elp

\* C10: encode calls whose steps interleave on one instance, with each other
\* or with a running decode, each write the output they write when run
\* alone.
C10_InterleavedEncodesAlone ==
  \A t \in Threads :
    /\ Returned(t, "encode_bytes") => thr[t].ecc = encode_bytes(bch, thr[t].arg_data)
    /\ Returned(t, "encode_bits") => thr[t].bits = encode_bits(bch, thr[t].msg)

\* an encode that has returned while the other thread is inside a decode
\* that has written the buffers, and one beside an encode of the other kind
C10_Witness ==
  \E t \in Threads, o \in Threads :
    /\ t # o
    /\ Returned(t, "encode_bytes")
    /\ thr[o].op = "decode_bytes" /\ thr[o].pc = "chien"
    /\ \E i \in 0 .. bch.n_rdncy - 1 : EccBit(thr[t].ecc, i) = 1

\* C11: no sequence of encode_bits, encode_bytes and decode calls, successful
\* or failing, changes N, K, t, n_rdncy, ecc_bytes, alpha_to, index_of, g,
\* encode_lut or syndrome_lut of the instance.
C11_TablesFrozen ==
  [][\A f \in {"N", "K", "t", "n_rdncy", "ecc_bytes", "alpha_to", "index_of",
               "g", "encode_lut", "syndrome_lut"} : bch'[f] = bch[f]]_vars

\* a failing decode that followed a completed decode on the same instance
C11_Witness ==
  /\ sent = MaxCalls
  /\ stage = "decoded"
  /\ ~call.ok
  /\ prior.op # "none"
  /\ ~ub

\* p is a primitive polynomial of degree mm: p[0] = p[mm] = 1 and the powers
\* x^0 .. x^(2^mm - 2) modulo p are distinct and not zero
IsPrimitive(mm, pol) ==
  /\ pol[0] = 1
  /\ pol[mm] = 1
  /\ \E sq \in {AlphaSeq(mm, pol, Pow2(mm) - 1)} :
       /\ \A i \in 1 .. Len(sq) : sq[i] # 0
       /\ \A i, j \in 1 .. Len(sq) : sq[i] = sq[j] => i = j

\* the vector p of a constructor call, indexed from 0
Supplied(pp) == [i \in 0 .. Len(pp) - 1 |-> pp[i + 1]]

\* C12: construct(N, t, p) fails with InvalidArgument whenever N is not
\* 2^m - 1 for an m with 3 <= m <= 16.
C12_BadLengthFails ==
  call.op = "construct" /\ ~(\E mm \in MinM .. MaxM : call.N = Pow2(mm) - 1)
    => call.threw = "invalid_argument"

\* a constructor call with N = 3 = 2^2 - 1 that returned an instance
C12_Witness ==
  /\ call.op = "construct"
  /\ call.N = 3
  /\ call.t = 1
  /\ call.p = <<>>
  /\ call.threw = "none"
  /\ bch.K = 1

\* C13: construct(N, t, p) fails with InvalidArgument whenever t < 1 or
\* 2t >= N, and then creates no codec.
C13_BadCapabilityFails ==
  call.op = "construct" /\ (call.t < 1 \/ 2 * call.t >= call.N)
    => call.threw = "invalid_argument" /\ bch = NoCodec

\* LiteBCH(7, 4): 2t >= N, and an instance with K = 1 is returned
C13_Witness ==
  /\ call.op = "construct"
  /\ call.N = 7
  /\ call.t = 4
  /\ call.p = <<>>
  /\ call.threw = "none"
  /\ bch.K = 1
  /\ ~ub

\* C14: construct(N, t, p) with a supplied p of length m + 1 that is not a
\* primitive polynomial of degree m (p[0] # 1 and p[m] # 1 included) fails
\* with InvalidArgument.
C14_NonPrimitiveFails ==
  /\ call.op = "construct"
  /\ ~BadLength(call.N)
  /\ call.p # <<>>
  /\ Len(call.p) = CeilLog2(call.N) + 1
  /\ ~IsPrimitive(CeilLog2(call.N), Supplied(call.p))
  => call.threw = "invalid_argument"

\* LiteBCH(7, 1, {1, 0, 0, 1}): x^3 + 1 is accepted and an instance returned
C14_Witness ==
  /\ call.op = "construct"
  /\ call.N = 7
  /\ call.t = 1
  /\ call.p = <<1, 0, 0, 1>>
  /\ call.threw = "none"
  /\ ~ub

\* C15: construct(N, t, p) with a non-empty p whose length differs from m + 1
\* fails with InvalidArgument before any table is built.
C15_WrongSizeFailsEarly ==
  call.op = "construct" /\ call.p # <<>> /\ Len(call.p) # CeilLog2(call.N) + 1
    => /\ call.threw = "invalid_argument"
       /\ call.steps = <<>>
       /\ bch = NoCodec

\* a p one entry too long handed in with a well-formed N and t
C15_Witness ==
  /\ call.op = "construct"
  /\ call.N = 15
  /\ call.t = 2
  /\ Len(call.p) = 6
  /\ call.threw = "invalid_argument"

\* the generator before "val &= 1" holds a coefficient other than 0 and 1
NonBinary(raw) == \E j \in DOMAIN raw : raw[j] \notin {0, 1}

\* C16: if the generator polynomial comes out with a coefficient that is not
\* 0 or 1, the constructor surfaces an Internal error; the coefficient is
\* never masked to a bit and a codec returned.
C16_NonBinarySurfaced ==
  call.op = "construct" /\ NonBinary(call.raw)
    => call.threw = "internal" /\ bch = NoCodec

\* LiteBCH(7, 1, {1, 1, 1, 1}) returned: the product came out as
\* 2 + 4x^2 + x^3 and was masked to g = x^3
C16_Witness ==
  /\ call.op = "construct"
  /\ call.N = 7
  /\ call.t = 1
  /\ call.p = <<1, 1, 1, 1>>
  /\ call.raw = [j \in 0 .. 3 |-> IF j = 0 THEN 2 ELSE IF j = 2 THEN 4 ELSE j \div 3]
  /\ NonBinary(call.raw)
  /\ call.threw = "none"
  /\ \A j \in DOMAIN bch.g : bch.g[j] = call.raw[j] % 2

\* C17: encode_bits(msg) with |msg| # K fails with InvalidArgument and
\* returns no codeword; with |msg| = K it never fails.
C17_MessageSizeChecked ==
  call.op = "encode_bits"
    => IF VecLen(message) # bch.K
       THEN call.threw = "invalid_argument" /\ codeword = EmptyVec
       ELSE call.threw = "none" /\ VecLen(codeword) = bch.N

\* a message one bit too long was handed to encode_bits
C17_Witness ==
  /\ call.op = "encode_bits"
  /\ VecLen(message) = bch.K + 1
  /\ call.threw = "invalid_argument"

\* the instance holds the polynomial with the taps given for its m
UsesTaps(taps) ==
  /\ call.op = "select_polynomial" => call.p = TablePolynomial(taps, call.m)
  /\ call.op = "construct" /\ call.ok /\ ~ub /\ call.p = <<>>
       /\ CeilLog2(call.N) \in MinM .. MaxM
       => bch.p = TablePolynomial(taps, bch.m)

\* the m of the last call
CallM == IF call.op = "select_polynomial" THEN call.m ELSE CeilLog2(call.N)

\* C18 as stated: with p omitted, the polynomial used for every m in [3,16]
\* has p[0] = p[m] = 1 plus only p[1] for m in {3,4,6,7,9,15}, p[2] for
\* m in {5,11}, p[3] for m = 10, p[1],p[3],p[4] for m = 13, p[4],p[5],p[6]
\* for m = 8, p[3],p[4],p[7] for m = 12, p[1],p[11],p[12] for m = 14 and
\* p[2],p[3],p[5] for m = 16.
C18_DefaultTableStated ==
  call.op \in {"select_polynomial", "construct"} => UsesTaps(StatedTaps(CallM))

\* C18 amended: the same table with p[4], not p[1], for m = 9.
C18_DefaultTable ==
  call.op \in {"select_polynomial", "construct"}
    => UsesTaps(IF CallM = 9 THEN {4} ELSE StatedTaps(CallM))

\* select_polynomial ran for m = 9
C18_Witness ==
  /\ call.op = "select_polynomial"
  /\ call.m = 9
  /\ call.p[4] = 1
  /\ call.p[1] = 0

\* alpha_to and index_of are inverse to each other over GF(2^mm)
MutuallyInverse(mm, at, io) ==
  /\ at[0] = 1
  /\ io[0] = -1
  /\ \A i \in 0 .. Pow2(mm) - 2 : at[i] \in 1 .. Pow2(mm) - 1
  /\ \A i \in 0 .. Pow2(mm) - 2 : io[at[i]] = i
  /\ \A x \in 1 .. Pow2(mm) - 1 : io[x] \in 0 .. Pow2(mm) - 2 /\ at[io[x]] = x

\* C19: for every codec constructed with a default polynomial the GF tables
\* are mutually inverse: alpha_to[index_of[x]] = x for x in [1, 2^m),
\* index_of[alpha_to[i]] = i for i in [0, N), alpha_to[0] = 1, every
\* alpha_to[i] with i < N lies in [1, 2^m), and index_of[0] = -1.
C19_TablesInverse ==
  /\ call.op = "init_galois"
       => MutuallyInverse(call.m, call.alpha_to, call.index_of)
  /\ call.op = "construct" /\ call.ok /\ ~ub /\ call.p = <<>>
       /\ CeilLog2(call.N) \in MinM .. MaxM
       => MutuallyInverse(bch.m, bch.alpha_to, bch.index_of)

\* the tables of GF(2^8) were built on the default polynomial
C19_Witness ==
  /\ call.op = "init_galois"
  /\ call.m = 8
  /\ call.alpha_to[8] = 113

\* C20: for every codec constructed with a primitive polynomial the product
\* of (x - alpha^beta) over the selected roots has every coefficient in
\* {0, 1} before the final "& 1", and g[0] = 1 and g[n_rdncy] = 1.
C20_GeneratorBinary ==
  call.op = "construct" /\ call.ok /\ ~ub /\ IsPrimitive(bch.m, bch.p)
    => /\ ~NonBinary(call.raw)
       /\ DOMAIN call.raw = 0 .. bch.n_rdncy
       /\ bch.g[0] = 1
       /\ bch.g[bch.n_rdncy] = 1

\* LiteBCH(15, 3, {1, 0, 0, 1, 1}): the other primitive polynomial of degree 4
C20_Witness ==
  /\ call.op = "construct"
  /\ call.N = 15
  /\ call.t = 3
  /\ call.p = <<1, 0, 0, 1, 1>>
  /\ call.ok
  /\ bch.n_rdncy = 10

\* the 2-cyclotomic coset of i modulo NN, NN = 2^mm - 1
Coset(NN, mm, i) == {(i * Pow2(k)) % NN : k \in 0 .. mm - 1}

\* the residues whose coset holds one of 1 .. 2t
CosetUnion(NN, mm, tt) ==
  {r \in 0 .. NN - 1 : Coset(NN, mm, r) \cap (1 .. 2 * tt) # {}}

\* C21: for every constructed codec n_rdncy = deg(g) is the number of
\* elements of the 2-cyclotomic cosets mod N that meet {1, .., 2t}, each
\* coset counted once; n_rdncy <= m * t; K = N - n_rdncy with K >= 1; and
\* ecc_bytes = ceil(n_rdncy / 8).
C21_Dimensions ==
  call.op = "construct" /\ call.ok /\ ~ub
    => /\ bch.n_rdncy = Cardinality(DOMAIN bch.g) - 1
       /\ bch.g[bch.n_rdncy] # 0
       /\ bch.n_rdncy = Cardinality(CosetUnion(bch.N, bch.m, bch.t))
       /\ bch.n_rdncy <= bch.m * bch.t
       /\ bch.K = bch.N - bch.n_rdncy
       /\ bch.K >= 1
       /\ bch.ecc_bytes * 8 >= bch.n_rdncy
       /\ (bch.ecc_bytes - 1) * 8 < bch.n_rdncy

\* LiteBCH(15, 2): the cosets of 1 and 3, eight roots, one parity byte
C21_Witness ==
  /\ call.op = "construct"
  /\ call.N = 15
  /\ call.t = 2
  /\ call.p = <<>>
  /\ call.ok
  /\ bch.n_rdncy = 8
  /\ bch.ecc_bytes = 1

\* C22: encode_bytes reads only the top K bits of data: buffers of
\* ceil(K/8) bytes that agree on the K message bits and differ only in the
\* low bits of the last byte give the same ecc_out, and every bit of ecc_out
\* at a position >= n_rdncy is zero.
C22_IgnoresPadding ==
  call.op = "encode_bytes" /\ call.len = (bch.K + 7) \div 8
    => /\ call.ecc_out = encode_bytes(bch, PackData(bch, message))
       /\ \A i \in bch.n_rdncy .. (8 * bch.ecc_bytes) - 1 : EccBit(call.ecc_out, i) = 0

\* a buffer whose unused low bits are all set was encoded
C22_Witness ==
  /\ call.op = "encode_bytes"
  /\ call.len = (bch.K + 7) \div 8
  /\ PadBits(bch) = 5
  /\ call.data[call.len - 1] % 32 = 31
  /\ EccPadBits(bch) > 0

\* C25: encode_bytes(data, len, ecc_out) reads no byte data[i] with i >= len,
\* for every len passed; with len = K/8 (integer division) and K not a
\* multiple of 8 it stays inside the buffer.
C25_ReadsWithinLen ==
  call.op = "encode_bytes" => \A i \in call.reads : i < call.len

\* LiteBCH(15, 1), K = 11: a buffer of K/8 = 1 byte, and data[1] was read
C25_Witness ==
  /\ call.op = "encode_bytes"
  /\ bch.N = 15
  /\ bch.K = 11
  /\ call.len = 1
  /\ 1 \in call.reads
  /\ ub

\* w is a codeword: the parity the encoder gives its message part
InCode(c, w) == w = encode_bits(c, MessagePart(c, w))

\* w lies n <= t bit flips from the received word and inside the code
Corrected(w, n) ==
  /\ InCode(bch, w)
  /\ Cardinality(Changed(w, received)) = n
  /\ n <= bch.t

\* C23: whenever decode reports success on a received word, with any number
\* of injected errors, the corrected word is a codeword and differs from the
\* received word in exactly count <= t positions; decode never reports
\* success on a word it leaves outside the code.
C23_SuccessIsCodeword ==
  stage = "decoded" =>
    /\ call.op = "decode_bytes" /\ call.ret >= 0
         => Corrected(ByteWord(bch, call.data, call.ecc), call.ret)
    /\ call.op = "decode_bits_bitwise" /\ call.ok
         => Corrected(call.Y_N, call.flipped)
    /\ call.op = "decode_bits" /\ call.ok
         => Corrected(encode_bits(bch, out), call.count)

\* LiteBCH(7, 2, {1, 1, 1, 1}): one error, and the byte decoder reported two
\* corrections
C23_Witness ==
  /\ stage = "decoded"
  /\ call.op = "decode_bytes"
  /\ bch.N = 7
  /\ bch.t = 2
  /\ bch.p = [i \in 0 .. 3 |-> 1]
  /\ errors = {1}
  /\ call.ret = 2
  /\ ~InCode(bch, ByteWord(bch, call.data, call.ecc))

\* the syndromes of the received word, in index form
ReceivedSyndromes ==
  SyndromesBytePath(bch, PackData(bch, MessagePart(bch, received)),
                    PackEcc(bch, received))

\* the u the Berlekamp iteration ends with on the syndromes sv, from fresh
\* buffers
LastU(sv) == BMRun(bch, BMInit(bch, FreshBuffers(bch), sv)).u + 1

\* 1 + sum of row[j] * x^j for j in k .. lu at x = alpha^i, row in index form
RECURSIVE LocatorAt(_, _, _, _)
LocatorAt(row, lu, i, k) ==
  IF k > lu THEN 1
  ELSE Xor(IF row[k] # -1 THEN bch.alpha_to[(row[k] + (i * k)) % bch.N] ELSE 0,
           LocatorAt(row, lu, i, k + 1))

\* the i in 1 .. N with alpha^i a root of the locator
LocatorRoots(row, lu) == {i \in 1 .. bch.N : LocatorAt(row, lu, i, 1) = 0}

\* the word a decode call left behind
DecodedWord ==
  IF call.op = "decode_bytes" THEN ByteWord(bch, call.data, call.ecc) ELSE call.Y_N

\* the verdict and the flips of a call that ended the iteration at u
FailsExactly(u) ==
  /\ ~call.ok <=> (l[u] > bch.t \/ Cardinality(LocatorRoots(elp[u], l[u])) # l[u])
  /\ call.ok /\ call.op # "decode_bits"
       => Changed(DecodedWord, received)
            = {bch.N - i : i \in LocatorRoots(elp[u], l[u])}

\* C24: decode reports failure exactly when some syndrome is non-zero and
\* either the Berlekamp-Massey iteration ends with a locator length l > t or
\* the Chien search finds a number of roots different from l; in every other
\* case it reports success and flips exactly the recorded locations N - i.
C24_FailureExactly ==
  stage = "decoded" =>
    \A sv \in {ReceivedSyndromes} :
      IF SynError(bch, sv)
      THEN \A u \in {LastU(sv)} : FailsExactly(u)
      ELSE call.ok /\ (call.op # "decode_bits" => DecodedWord = received)

\* the iteration ended with l <= t and the Chien search found fewer roots
C24_Witness ==
  /\ stage = "decoded"
  /\ call.op = "decode_bytes"
  /\ ~call.ok
  /\ \E u \in {LastU(ReceivedSyndromes)} :
       /\ l[u] <= bch.t
       /\ Cardinality(LocatorRoots(elp[u], l[u])) < l[u]

\* C26: when decode_bytes returns a negative value, every byte of data and
\* ecc is as it was passed in.
C26_FailureLeavesBuffers ==
  stage = "decoded" /\ call.op = "decode_bytes" /\ call.ret < 0
    => /\ call.data = PackData(bch, MessagePart(bch, received))
       /\ call.ecc = PackEcc(bch, received)

\* a failed call whose Chien search had recorded a root
C26_Witness ==
  /\ stage = "decoded"
  /\ call.op = "decode_bytes"
  /\ call.ret < 0
  /\ \E u \in {LastU(ReceivedSyndromes)} :
       /\ l[u] <= bch.t
       /\ LocatorRoots(elp[u], l[u]) # {}

\* the bits a call changed in a buffer, byte by byte
BufferDiff(before, after) == [i \in DOMAIN before |-> Xor(before[i], after[i])]

\* the padding bits of the two buffers
DataPad(c, data) == LowBits(data[((c.K + 7) \div 8) - 1], PadBits(c))

EccPad(c, ecc) == ecc[c.ecc_bytes - 1] \div Pow2(8 - EccPadBits(c))

\* the call on the same word with every padding bit clear
ClearCall ==
  decode_bytes(bch, FreshBuffers(bch),
               PackData(bch, MessagePart(bch, received)),
               (bch.K + 7) \div 8, PackEcc(bch, received))

\* a call returns what r does, flips the positions r flipped and leaves the
\* padding alone
SameAs(r) ==
  /\ call.ret = r.ret
  /\ BufferDiff(call.arg_data, call.data)
       = BufferDiff(PackData(bch, MessagePart(bch, received)), r.data)
  /\ BufferDiff(call.arg_ecc, call.ecc) = BufferDiff(PackEcc(bch, received), r.ecc)
  /\ DataPad(bch, call.data) = DataPad(bch, call.arg_data)
  /\ EccPad(bch, call.ecc) = EccPad(bch, call.arg_ecc)

\* C27: decode_bytes does not depend on padding bits: calls whose buffers
\* agree on the K message bits and the n_rdncy parity bits and differ only in
\* the low bits of the last data byte or in the bits from n_rdncy up of the
\* last ecc byte return the same value and flip the same positions, and no
\* padding bit is modified.
C27_IgnoresPadding ==
  stage = "decoded" /\ call.op = "decode_bytes" /\ ~ub
    => \A r \in {ClearCall} : SameAs(r)

\* a call that corrected errors on buffers with padding set in both
C27_Witness ==
  /\ stage = "decoded"
  /\ call.op = "decode_bytes"
  /\ ~ub
  /\ call.ret > 0
  /\ DataPad(bch, call.arg_data) # 0
  /\ EccPad(bch, call.arg_ecc) # 0

\* x^N + 1 as the coefficients 0 .. N
Cycle(c) == [i \in 0 .. c.N |-> IF i = 0 \/ i = c.N THEN 1 ELSE 0]

\* g divides x^N - 1 over GF(2)
DividesCycle(c) ==
  \A i \in 0 .. c.N : DivideRange(c, Cycle(c), c.N, c.n_rdncy)[i] = 0

\* the sum of alpha^(i * j) over the terms x^j of g from degree k up
RECURSIVE GeneratorAt(_, _, _)
GeneratorAt(c, i, k) ==
  IF k > c.n_rdncy THEN 0
  ELSE Xor(IF c.g[k] # 0 THEN c.alpha_to[(i * k) % c.N] ELSE 0,
           GeneratorAt(c, i, k + 1))

\* the syndromes S_1 .. S_2t of a word are zero
ZeroSyndromes(c, w) ==
  \A i \in 1 .. 2 * c.t : SyndromeBits(c, w, i, 0, c.N - 1) = 0

\* C28: for every codec constructed with a primitive polynomial, g divides
\* x^N - 1 over GF(2) and g(alpha^i) = 0 for every i in 1 .. 2t, so every
\* codeword produced by either encoder has all 2t syndromes equal to zero.
C28_GeneratorRoots ==
  call.ok /\ ~ub /\ stage \in {"new", "encoded"} /\ IsPrimitive(bch.m, bch.p)
    => /\ DividesCycle(bch)
       /\ \A i \in 1 .. 2 * bch.t : GeneratorAt(bch, i, 0) = 0
       /\ stage = "encoded"
            => /\ ZeroSyndromes(bch, codeword)
               /\ ZeroSyndromes(bch,
                    ByteWord(bch, PackData(bch, message),
                             encode_bytes(bch, PackData(bch, message))))

\* LiteBCH(7, 4): alpha^7 = 1 is none of the roots of g
C28_Witness ==
  /\ call.op = "construct"
  /\ call.ok
  /\ ~ub
  /\ call.N = 7
  /\ call.t = 4
  /\ call.p = <<>>
  /\ bch.n_rdncy = 6
  /\ GeneratorAt(bch, 7, 0) # 0

\* the steps q < u with a non-zero discrepancy
Candidates(u) == {j \in 0 .. u - 1 : discrepancy[j] # -1}

\* the candidates whose u_lu is maximal
BestCandidates(u) ==
  {j \in Candidates(u) : \A k \in Candidates(u) : u_lu[k] <= u_lu[j]}

\* the steps u of the last Berlekamp iteration that had a non-zero discrepancy
UpdatingSteps(sv) ==
  IF SynError(bch, sv)
  THEN {u \in 1 .. LastU(sv) - 1 : discrepancy[u] # -1}
  ELSE {}

InBounds(lp, fin) ==
  /\ ~fin.ws.ub
  /\ lp.u + 1 <= (2 * bch.t) + 1
  /\ \A u \in 1 .. lp.u : u < 2 * bch.t => fin.ws.l[u + 1] <= u
  /\ fin.found
       => /\ fin.ws.l[lp.u + 1] <= bch.t
          /\ fin.count <= fin.ws.l[lp.u + 1]
          /\ \A k \in 0 .. fin.count - 1 : fin.ws.loc[k] \in 0 .. bch.N - 1

\* C30: in every decode call on any received word all workspace accesses stay
\* in bounds: the Chien search records at most l <= t roots, so loc is never
\* written past index t - 1; every recorded location lies in [0, N); reg is
\* indexed only in [1, t]; the syndromes are read only at 1 .. 2t; and elp,
\* discrepancy, l and u_lu are indexed at most at 2t + 1.
C30_AccessesInBounds ==
  stage = "decoded" =>
    /\ ~ub
    /\ \A sv \in {ReceivedSyndromes} :
         SynError(bch, sv) =>
           \A lp \in {BMRun(bch, BMInit(bch, FreshBuffers(bch), sv))} :
             \A fin \in {Locate(bch, lp.ws, lp.u + 1, TRUE)} : InBounds(lp, fin)

\* LiteBCH(7, 1, {1, 0, 0, 1}) decoding a word with one bit flipped: the
\* Chien search found a third root and wrote it behind loc
C30_Witness ==
  /\ stage = "decoded"
  /\ call.op = "decode_bytes"
  /\ bch.N = 7
  /\ bch.t = 1
  /\ bch.p = [i \in 0 .. 3 |-> IF i = 0 \/ i = 3 THEN 1 ELSE 0]
  /\ Cardinality(errors) = 1
  /\ ub
  /\ call.ret = -1

====
